---- MODULE Spec2Model ----
(***************************************************************************)
(* Checkpoint-based synchronisation of CHIRP token transactions from the   *)
(* SUI ledger into the chirp_transactions table                            *)
(* (service.ChirpTransactionService over gormdb.ChirpTransactionRepository *)
(* and blockchain.SuiClient).                                              *)
(*                                                                         *)
(* Strings the code inspects (coin types, amounts, costs, timestamps,      *)
(* event types) are sequences of one-character strings; strings the code   *)
(* only copies and compares (digests, addresses) are opaque values.        *)
(***************************************************************************)
EXTENDS Integers, Sequences, FiniteSets, TLC

\* Height of the modelled ledger: checkpoints 0..MaxCp exist.
MaxCp == 2

\* Largest page batch handed to processBatchParallel.
MaxBatch == 2

\* The callers of SyncTransactions: the background ticker of main and the
\* HTTP /api/v1/sync handler (the gRPC method is a third caller of the same
\* method and behaves as a second on-demand caller).
Passes == {"timer", "http"}

\* A nil pointer (Go nil): a record no record of the model equals.
Nil == [nil |-> TRUE]

(***************************************************************************)
(* Strings                                                                 *)
(***************************************************************************)
UpperChars ==
  <<"A","B","C","D","E","F","G","H","I","J","K","L","M",
    "N","O","P","Q","R","S","T","U","V","W","X","Y","Z">>

LowerChars ==
  <<"a","b","c","d","e","f","g","h","i","j","k","l","m",
    "n","o","p","q","r","s","t","u","v","w","x","y","z">>

\* strings.ToLower on one character
LowerChar(c) ==
  IF \E k \in 1..26 : UpperChars[k] = c
    THEN LowerChars[CHOOSE k \in 1..26 : UpperChars[k] = c]
    ELSE c

\* strings.ToLower
ToLower(s) == [k \in 1..Len(s) |-> LowerChar(s[k])]

\* strings.Contains
Contains(s, sub) ==
  \E k \in 0..(Len(s) - Len(sub)) : SubSeq(s, k + 1, k + Len(sub)) = sub

\* strings.HasPrefix
HasPrefix(s, pre) ==
  Len(s) >= Len(pre) /\ SubSeq(s, 1, Len(pre)) = pre

Digits == <<"0","1","2","3","4","5","6","7","8","9">>

IsDigit(c) == \E k \in 1..10 : Digits[k] = c

DigitVal(c) == (CHOOSE k \in 1..10 : Digits[k] = c) - 1

\* the value of a string of digits
DigitsVal(s) ==
  LET val[k \in 0..Len(s)] ==
        IF k = 0 THEN 0 ELSE 10 * val[k - 1] + DigitVal(s[k])
  IN  val[Len(s)]

\* strconv.ParseInt(s, 10, 64): an optional sign followed by one or more
\* digits; anything else is an error (and the value returned with it is 0).
ParseIntOk(s) ==
  LET body == IF Len(s) > 0 /\ s[1] \in {"-", "+"} THEN Tail(s) ELSE s
  IN  Len(body) > 0 /\ \A k \in 1..Len(body) : IsDigit(body[k])

ParseInt(s) ==
  IF ~ParseIntOk(s) THEN 0
  ELSE IF s[1] = "-" THEN 0 - DigitsVal(Tail(s))
  ELSE IF s[1] = "+" THEN DigitsVal(Tail(s))
  ELSE DigitsVal(s)

\* the decimal digits of a natural number
NatToStr(n) ==
  LET str[m \in 0..n] ==
        IF m < 10 THEN <<Digits[m + 1]>>
        ELSE str[m \div 10] \o <<Digits[(m % 10) + 1]>>
  IN  str[n]

\* fmt.Sprintf("%d", n)
FormatInt(n) == IF n < 0 THEN <<"-">> \o NatToStr(0 - n) ELSE NatToStr(n)

(***************************************************************************)
(* int64 (the width strconv.ParseInt(s, 10, 64) parses to and the width    *)
(* of the sum of calculateGasFee)                                          *)
(*                                                                         *)
(* A w-bit integer is a sequence of w/16 limbs of 16 bits, least           *)
(* significant first, in two's complement.                                 *)
(***************************************************************************)
\* the bitSize argument of strconv.ParseInt
BitSize == 64

LimbBase == 2^16

Int64Limbs == BitSize \div 16

LimbsZero(n) == [i \in 1..n |-> 0]

LimbsOne(n) == [i \in 1..n |-> IF i = 1 THEN 1 ELSE 0]

\* x * m + d on n limbs, with the carry out of the top limb
LimbsMulAdd(x, m, d) ==
  LET step[i \in 0..Len(x)] ==
        IF i = 0 THEN [val |-> << >>, carry |-> d]
        ELSE LET prev == step[i - 1]
                 t == x[i] * m + prev.carry
             IN  [val |-> Append(prev.val, t % LimbBase),
                  carry |-> t \div LimbBase]
  IN  step[Len(x)]

\* x + y modulo 2^(16 n): the carry out of the top limb is lost
LimbsAdd(x, y) ==
  LET step[i \in 0..Len(x)] ==
        IF i = 0 THEN [val |-> << >>, carry |-> 0]
        ELSE LET prev == step[i - 1]
                 t == x[i] + y[i] + prev.carry
             IN  [val |-> Append(prev.val, t % LimbBase),
                  carry |-> t \div LimbBase]
  IN  step[Len(x)].val

\* -x modulo 2^(16 n)
LimbsNeg(x) ==
  LimbsAdd([i \in 1..Len(x) |-> LimbBase - 1 - x[i]], LimbsOne(Len(x)))

\* x - y modulo 2^(16 n)
LimbsSub(x, y) == LimbsAdd(x, LimbsNeg(y))

\* the sign bit
LimbsNegative(x) == x[Len(x)] >= LimbBase \div 2

\* the digits are read and written four at a time
LimbChunk == 10^4

\* the unsigned value of a string of digits on n limbs; over when it does
\* not fit
LimbsOfDigits(s, n) ==
  LET chunks == (Len(s) + 3) \div 4
      chunk(j) == SubSeq(s, 4 * j - 3, IF 4 * j < Len(s) THEN 4 * j ELSE Len(s))
      acc[j \in 0..chunks] ==
        IF j = 0 THEN [val |-> LimbsZero(n), over |-> FALSE]
        ELSE LET prev == acc[j - 1]
                 r == LimbsMulAdd(prev.val, 10^Len(chunk(j)),
                                  DigitsVal(chunk(j)))
             IN  [val |-> r.val, over |-> prev.over \/ r.carry # 0]
  IN  acc[chunks]

\* unsigned x divided by m: quotient and remainder
LimbsDiv(x, m) ==
  LET n == Len(x)
      step[i \in 1..(n + 1)] ==
        IF i = n + 1 THEN [quot |-> << >>, rem |-> 0]
        ELSE LET prev == step[i + 1]
                 t == prev.rem * LimbBase + x[i]
             IN  [quot |-> <<t \div m>> \o prev.quot, rem |-> t % m]
  IN  step[1]

\* the four decimal digits of r < 10^4
FourDigits(r) ==
  <<Digits[(r \div 1000) + 1], Digits[((r \div 100) % 10) + 1],
    Digits[((r \div 10) % 10) + 1], Digits[(r % 10) + 1]>>

\* the decimal digits of unsigned x, none for zero
RECURSIVE LimbsDigits(_)
LimbsDigits(x) ==
  IF x = LimbsZero(Len(x)) THEN << >>
  ELSE LET qr == LimbsDiv(x, LimbChunk)
       IN  IF qr.quot = LimbsZero(Len(x)) THEN NatToStr(qr.rem)
           ELSE LimbsDigits(qr.quot) \o FourDigits(qr.rem)

\* fmt.Sprintf("%d", x) of the signed integer x
LimbsFormat(x) ==
  IF x = LimbsZero(Len(x)) THEN <<"0">>
  ELSE IF LimbsNegative(x) THEN <<"-">> \o LimbsDigits(LimbsNeg(x))
  ELSE LimbsDigits(x)

\* math.MaxInt64 and math.MinInt64
MaxInt64 ==
  [i \in 1..Int64Limbs |->
     IF i = Int64Limbs THEN LimbBase \div 2 - 1 ELSE LimbBase - 1]

MinInt64 ==
  [i \in 1..Int64Limbs |-> IF i = Int64Limbs THEN LimbBase \div 2 ELSE 0]

\* strconv.ParseInt(s, 10, 64) as an int64: a syntax error returns 0, a
\* value out of range returns the nearest int64, both with an error
ParseInt64(s) ==
  IF ~ParseIntOk(s) THEN [val |-> LimbsZero(Int64Limbs), err |-> "syntax"]
  ELSE LET neg == s[1] = "-"
           body == IF s[1] \in {"-", "+"} THEN Tail(s) ELSE s
           un == LimbsOfDigits(body, Int64Limbs)
       IN  IF ~neg /\ (un.over \/ LimbsNegative(un.val))
             THEN [val |-> MaxInt64, err |-> "range"]
           ELSE IF neg /\ (un.over \/ (LimbsNegative(un.val)
                                       /\ un.val # MinInt64))
             THEN [val |-> MinInt64, err |-> "range"]
           ELSE [val |-> IF neg THEN LimbsNeg(un.val) ELSE un.val,
                 err |-> "none"]

(***************************************************************************)
(* The ledger (what blockchain.SuiClient returns)                          *)
(***************************************************************************)
\* blockchainInfo.ChirpCurrency: "0x1::chirp::CHIRP"
chirpToken ==
  <<"0","x","1",":",":","c","h","i","r","p",":",":","C","H","I","R","P">>

\* the gas coin "0x2::sui::SUI"
SuiCoin == <<"0","x","2",":",":","s","u","i",":",":","S","U","I">>

\* Transactions of checkpoint c, as digests <<c, k>>.  Checkpoint 0 holds the
\* genesis transaction, odd checkpoints one transaction, even ones two.
CheckpointTxs(c) ==
  IF c = 0 THEN << <<0, 1>> >>
  ELSE IF c % 2 = 1 THEN << <<c, 1>> >>
  ELSE << <<c, 1>>, <<c, 2>> >>

\* Checkpoint.TimestampMs of checkpoint c
CheckpointTimestampMs(c) == FormatInt(1000 + c)

BalanceChange(addressOwner, objectOwner, coinType, amount) ==
  [Owner |-> [AddressOwner |-> addressOwner, ObjectOwner |-> objectOwner],
   CoinType |-> coinType, Amount |-> amount]

GasUsedOf(comp, storage, rebate) ==
  [ComputationCost |-> comp, StorageCost |-> storage, StorageRebate |-> rebate]

\* The balance changes of transaction d:
\*   genesis <<0,1>>     : a gas coin change only (no tracked asset)
\*   odd checkpoint      : one CHIRP credit plus the sender's gas change
\*   even, first  <<c,1>>: a CHIRP debit of the sender and a credit of bob
\*   even, second <<c,2>>: one CHIRP credit claimed through the claim call
TxBalanceChanges(d) ==
  IF d[1] = 0 THEN
    << BalanceChange("0xg", "", SuiCoin, <<"-","1">>) >>
  ELSE IF d[1] % 2 = 1 THEN
    << BalanceChange("0xbob", "", chirpToken, <<"7">>),
       BalanceChange("0xalice", "", SuiCoin, <<"-","3">>) >>
  ELSE IF d[2] = 1 THEN
    << BalanceChange("0xalice", "", chirpToken, <<"-","5">>),
       BalanceChange("0xbob", "", chirpToken, <<"5">>) >>
  ELSE
    << BalanceChange("", "0xvault", chirpToken, <<"9">>) >>

\* TransactionKind.Transactions of transaction d: the programmable commands
TxCommands(d) ==
  IF d[1] > 0 /\ d[1] % 2 = 0 /\ d[2] = 2
    THEN << [MoveCall |-> [function |-> "claim"]] >>
    ELSE << [TransferObjects |-> "coin"] >>

\* sui_getTransactionBlock(d) with all the show options
TransactionBlock(d) ==
  [Digest |-> d,
   Transaction |->
     [Data |-> [Sender |-> IF d[1] = 0 THEN "0xg" ELSE "0xalice",
                Transaction |-> [Kind |-> "ProgrammableTransaction",
                                 Transactions |-> TxCommands(d)]]],
   Effects |-> [Status |-> [Status |-> "success"],
                GasUsed |-> GasUsedOf(<<"4">>, <<"3">>, <<"2">>)],
   Events |-> << >>,
   BalanceChanges |-> TxBalanceChanges(d),
   TimestampMs |-> [val |-> CheckpointTimestampMs(d[1])],
   Checkpoint |-> [val |-> FormatInt(d[1])]]

\* sui_getCheckpoint(c)
GetCheckpoint(c) ==
  [SequenceNumber |-> FormatInt(c),
   TimestampMs |-> CheckpointTimestampMs(c),
   Transactions |-> CheckpointTxs(c)]

(***************************************************************************)
(* TransactionExtractor                                                    *)
(***************************************************************************)
\* The kinds the documentation lists (README "Типы транзакций")
TransactionTypes == {"claim", "transfer", "stake", "unstake", "buy", "sell"}

\* ChirpTransactionService.parseTimestamp: error iff ParseInt fails
parseTimestampOk(timestampMs) == ParseIntOk(timestampMs)

\* time.Unix(0, ms*int64(time.Millisecond)), in milliseconds
parseTimestamp(timestampMs) == ParseInt(timestampMs)

\* ChirpTransactionService.calculateGasFee: the errors of the three parses
\* are dropped, and the int64 sum wraps
calculateGasFee(gasUsed) ==
  LET comp == ParseInt64(gasUsed.ComputationCost).val
      storage == ParseInt64(gasUsed.StorageCost).val
      rebate == ParseInt64(gasUsed.StorageRebate).val
  IN  LimbsFormat(LimbsSub(LimbsAdd(comp, storage), rebate))

\* An owner resolution that prefers the object owner.
extractOwnerAddressObjectFirst(owner) ==
  IF owner.ObjectOwner # "" THEN owner.ObjectOwner
  ELSE IF owner.AddressOwner # "" THEN owner.AddressOwner
  ELSE ""

\* ChirpTransactionService.extractOwnerAddress
extractOwnerAddress(owner) ==
  IF owner.AddressOwner # "" THEN owner.AddressOwner
  ELSE IF owner.ObjectOwner # "" THEN owner.ObjectOwner
  ELSE ""

\* the claim check of determineTransactionType: some command is a MoveCall
\* whose function is "claim"
HasClaimCall(txBlock) ==
  /\ txBlock.Transaction # Nil
  /\ txBlock.Transaction.Data.Transaction.Kind = "ProgrammableTransaction"
  /\ \E k \in DOMAIN txBlock.Transaction.Data.Transaction.Transactions :
       LET tx == txBlock.Transaction.Data.Transaction.Transactions[k]
       IN  /\ "MoveCall" \in DOMAIN tx
           /\ "function" \in DOMAIN tx.MoveCall
           /\ tx.MoveCall.function = "claim"

StakeProofMarker == <<"S","t","a","k","e","P","r","o","o","f">>
StakeMarker == <<"s","t","a","k","e">>
UnstakeMarker == <<"u","n","s","t","a","k","e">>

\* the event loop of determineTransactionType: the first event that decides;
\* "" when no event does
EventKind(events) ==
  LET kind[k \in 1..(Len(events) + 1)] ==
        IF k > Len(events) THEN ""
        ELSE IF Contains(events[k].Type, StakeProofMarker)
                \/ Contains(events[k].Type, StakeMarker) THEN "stake"
        ELSE IF Contains(events[k].Type, UnstakeMarker) THEN "unstake"
        ELSE kind[k + 1]
  IN  kind[1]

\* A classification whose last step ignores the sign of the amount.
determineTransactionTypeNoSign(txBlock, amount) ==
  IF HasClaimCall(txBlock) THEN "claim"
  ELSE IF EventKind(txBlock.Events) # "" THEN EventKind(txBlock.Events)
  ELSE "transfer"

\* A classification that takes an incoming amount for a purchase.
determineTransactionTypeBuys(txBlock, amount) ==
  IF HasClaimCall(txBlock) THEN "claim"
  ELSE IF EventKind(txBlock.Events) # "" THEN EventKind(txBlock.Events)
  ELSE IF HasPrefix(amount, <<"-">>) THEN "sell"
  ELSE IF amount # <<"0">> THEN "buy"
  ELSE "transfer"

\* ChirpTransactionService.determineTransactionType
determineTransactionType(txBlock, amount) ==
  IF HasClaimCall(txBlock) THEN "claim"
  ELSE IF EventKind(txBlock.Events) # "" THEN EventKind(txBlock.Events)
  ELSE IF HasPrefix(amount, <<"-">>) THEN "sell"
  ELSE IF amount # <<"0">> THEN "transfer"
  ELSE "transfer"

\* the coin type test of extractChirpTransactions
isChirp(coinType) ==
  \/ Contains(ToLower(coinType), ToLower(chirpToken))
  \/ Contains(ToLower(coinType), <<":",":","c","h","i","r","p",":",":">>)

\* the domain.ChirpTransaction built from one matching balance change
\* (seq is the checkpoint argument of extractChirpTransactions)
ChirpTransaction(txBlock, balanceChange, seq, timestamp) ==
  [ID |-> 0,
   Digest |-> txBlock.Digest,
   Sender |-> txBlock.Transaction.Data.Sender,
   Recipient |-> extractOwnerAddress(balanceChange.Owner),
   Amount |-> balanceChange.Amount,
   TransactionType |-> determineTransactionType(txBlock, balanceChange.Amount),
   Checkpoint |-> seq,
   Timestamp |-> timestamp,
   Success |-> (txBlock.Effects.Status.Status = "success"),
   GasFee |-> calculateGasFee(txBlock.Effects.GasUsed)]

\* ChirpTransactionService.extractChirpTransactions: one event per balance
\* change of the tracked coin, in the order of the record
extractChirpTransactions(txBlock, seq, timestamp) ==
  IF txBlock.Transaction = Nil \/ txBlock.Effects = Nil THEN << >>
  ELSE LET changes == txBlock.BalanceChanges
           txs[k \in 0..Len(changes)] ==
             IF k = 0 THEN << >>
             ELSE IF isChirp(changes[k].CoinType)
               THEN Append(txs[k - 1],
                      ChirpTransaction(txBlock, changes[k], seq, timestamp))
             ELSE txs[k - 1]
       IN  txs[Len(changes)]

(***************************************************************************)
(* Deduplicator                                                            *)
(***************************************************************************)
\* the (digest, recipient, amount, kind) of an event
DedupKey(tx) == <<tx.Digest, tx.Recipient, tx.Amount, tx.TransactionType>>

\* the key of deduplicateTransactions: the four fields joined by "|" into one
\* string.  Digest and Amount are sequences of symbols, Recipient and
\* TransactionType one symbol each.
SeenKey(tx) ==
  tx.Digest \o <<"|">> \o <<tx.Recipient>> \o <<"|">> \o tx.Amount
    \o <<"|">> \o <<tx.TransactionType>>

\* ChirpTransactionService.deduplicateTransactions: an event is kept when
\* no earlier event of the input has its key
deduplicateTransactions(txs) ==
  LET unique[k \in 0..Len(txs)] ==
        IF k = 0 THEN << >>
        ELSE IF \E j \in 1..(k - 1) : SeenKey(txs[j]) = SeenKey(txs[k])
          THEN unique[k - 1]
        ELSE Append(unique[k - 1], txs[k])
  IN  unique[Len(txs)]

(***************************************************************************)
(* PersistenceStore: the chirp_transactions table, rows in insertion order *)
(***************************************************************************)
\* toDBModel, with the primary key the insert assigns
toDBModel(tx, id) == [tx EXCEPT !.ID = id]

\* the rows of one INSERT, appended
InsertRows(st, txs) ==
  st \o [k \in 1..Len(txs) |-> toDBModel(txs[k], Len(st) + k)]

\* A unique index that is checked among the rows of the statement only, not
\* against the rows already stored.
ViolatesUniqueIndexWithinBatch(st, txs) ==
  \E j, k \in DOMAIN txs : j # k /\ txs[j].Digest = txs[k].Digest

\* The uniqueIndex on Digest: the INSERT violates it when a row of the batch
\* has the digest of a stored row or of another row of the batch.
ViolatesUniqueIndex(st, txs) ==
  \/ \E k \in DOMAIN txs, r \in DOMAIN st : txs[k].Digest = st[r].Digest
  \/ \E j, k \in DOMAIN txs : j # k /\ txs[j].Digest = txs[k].Digest

\* A CreateTransactionsBatch that inserts whatever it is given (no unique
\* index on the table).
CreateTransactionsBatchNoIndex(st, txs) ==
  [err |-> FALSE, store |-> InsertRows(st, txs)]

\* the longest prefix of the batch that can be inserted row by row
InsertablePrefix(st, txs) ==
  LET ok(n) == ~ViolatesUniqueIndex(st, SubSeq(txs, 1, n))
  IN  SubSeq(txs, 1, CHOOSE n \in 0..Len(txs) :
                       ok(n) /\ \A m \in (n + 1)..Len(txs) : ~ok(m))

\* A CreateTransactionsBatch that is not atomic: the rows before the first
\* one that violates the unique index stay stored, and the error is returned.
CreateTransactionsBatchNotAtomic(st, txs) ==
  IF Len(txs) = 0 THEN [err |-> FALSE, store |-> st]
  ELSE IF ViolatesUniqueIndex(st, txs)
    THEN [err |-> TRUE, store |-> InsertRows(st, InsertablePrefix(st, txs))]
  ELSE [err |-> FALSE, store |-> InsertRows(st, txs)]

\* A bulk write that replaces the rows of the table by those of the batch.
CreateTransactionsBatchReplacing(st, txs) ==
  IF Len(txs) = 0 THEN [err |-> FALSE, store |-> st]
  ELSE [err |-> FALSE, store |-> InsertRows(<< >>, txs)]

\* ChirpTransactionRepository.CreateTransactionsBatch on a reachable
\* database: CreateInBatches is one INSERT statement (or one transaction of
\* them), so a unique violation stores no row of the batch and is returned
\* as the error.
CreateTransactionsBatch(st, txs) ==
  IF Len(txs) = 0 THEN [err |-> FALSE, store |-> st]
  ELSE IF ViolatesUniqueIndex(st, txs) THEN [err |-> TRUE, store |-> st]
  ELSE [err |-> FALSE, store |-> InsertRows(st, txs)]

\* ChirpTransactionRepository.GetTransactionByDigest: a row or nil
GetTransactionByDigest(st, digest) ==
  IF \E r \in DOMAIN st : st[r].Digest = digest
    THEN st[CHOOSE r \in DOMAIN st :
              /\ st[r].Digest = digest
              /\ \A q \in DOMAIN st : st[q].Digest = digest => r <= q]
    ELSE Nil

\* A GetLatestCheckpoint that reads the newest row instead of MAX.
GetLatestCheckpointNewestRow(st) ==
  IF Len(st) = 0 THEN 0 ELSE st[Len(st)].Checkpoint

\* ChirpTransactionRepository.GetLatestCheckpoint: MAX(checkpoint), 0 for an
\* empty table
GetLatestCheckpoint(st) ==
  IF Len(st) = 0 THEN 0
  ELSE CHOOSE m \in {st[r].Checkpoint : r \in DOMAIN st} :
         \A r \in DOMAIN st : st[r].Checkpoint <= m

(***************************************************************************)
(* State                                                                   *)
(***************************************************************************)
VARIABLES
  store,             \* chirp_transactions: the rows, in insertion order
  latest,            \* the ledger's latest checkpoint sequence number
  pc,                \* per caller: where its SyncTransactions call stands
  lastCheckpoint,    \* per caller: SyncTransactions.lastCheckpoint
  latestCheckpoint,  \* per caller: SyncTransactions.latestCheckpoint
  checkpoint,        \* per caller: the loop variable of syncCheckpointRange
  tasks,             \* per caller: the goroutines of the current checkpoint
  totalTxCount,      \* per caller: syncCheckpointRange.totalTxCount
  chirpTxCount,      \* per caller: syncCheckpointRange.chirpTxCount
  err,               \* per caller: the error SyncTransactions returns
  hStore0,           \* history: the store when the call began
  hFailed,           \* history: a ledger or database call of the call failed
  hMode,             \* history: how the call relates to the call before it
  hPrev,             \* history: how the last call that ran alone ended
  hNew,              \* history: the digests the call found not stored yet
  hFetched,          \* history: the checkpoints the call fetched, in order
  batch,             \* processBatchParallel: the digests of the batch's blocks
  bpc,               \* processBatchParallel: where the call stands
  btasks,            \* processBatchParallel: where each goroutine stands
  allChirpTxs,       \* processBatchParallel.allChirpTxs
  bresult,           \* processBatchParallel: the (count, error) returned
  hSource,           \* history: the goroutine that appended each event
  hBatchFailed,      \* history: a database call of the batch call failed
  hBatchStore0,      \* history: the table when processBatchParallel began
  mu,                \* processBatchParallel.mu: the goroutine holding it, or 0
  cancelled,         \* the context of the HTTP request is cancelled
  hAborted,          \* history: the cancellation aborted a call in flight
  locators,          \* fan-out: the number of digests of the checkpoint
  spawned,           \* fan-out: goroutines started so far (wg.Add, go func)
  finished,          \* fan-out: goroutines that have returned (wg.Done)
  claimAddr,         \* classification: the service's claimAddr
  txIn,              \* classification: the transaction block given
  txOut,             \* classification: what extractChirpTransactions returned
  window,            \* statistics: the period <<start, end>> asked for
  stats,             \* statistics: the TokenStatistics returned
  qEntry,            \* address query: the entry point called
  qAddress,          \* address query: the address asked for
  qLimit,            \* address query: the limit given by the caller
  qOffset,           \* address query: the offset given by the caller
  qResult,           \* address query: the transactions returned
  dedupIn,           \* deduplicateTransactions: the events given
  dedupOut,          \* deduplicateTransactions: the events returned
  shapeBatch,        \* extraction: the blocks given to processBatchParallel
  shapeTxs,          \* extraction: the events extracted, block by block
  shapeResult,       \* extraction: what processBatchParallel returned
  scanPc,            \* address scan: where syncTransactionsByAddress stands
  cursor,            \* address scan: the cursor of the next query
  response,          \* address scan: the page the ledger returned last
  totalCount,        \* address scan: the events saved so far
  scanErr            \* address scan: the error returned

passVars ==
  <<pc, lastCheckpoint, latestCheckpoint, checkpoint, tasks, totalTxCount,
    chirpTxCount, err>>

histVars == <<hStore0, hFailed, hMode, hPrev, hNew, hFetched>>

batchVars ==
  <<batch, bpc, btasks, allChirpTxs, bresult, hSource, hBatchFailed,
    hBatchStore0, mu>>

fanVars == <<locators, spawned, finished>>

classVars == <<claimAddr, txIn, txOut>>

ctxVars == <<cancelled, hAborted>>

statVars == <<window, stats>>

qryVars == <<qEntry, qAddress, qLimit, qOffset, qResult>>

dedupVars == <<dedupIn, dedupOut>>

shapeVars == <<shapeBatch, shapeTxs, shapeResult>>

scanVars == <<scanPc, cursor, response, totalCount, scanErr>>

readVars == <<statVars, qryVars, dedupVars, shapeVars, scanVars>>

auxVars == <<ctxVars, fanVars, classVars, readVars>>

syncVars == <<latest, passVars, histVars>>

vars == <<store, syncVars, batchVars, auxVars>>

\* Go errors: nil is the empty tuple, fmt.Errorf("msg: %w", ...) is <<msg>>
\* (<<msg, cause>> where the wrapped cause matters) and
\* fmt.Errorf("msg %d: %w", n, ...) is <<msg, n>>
NoErr == << >>

\* a goroutine of syncCheckpointRange, about to run processTransaction
NewTask(digest) ==
  [digest |-> digest, pc |-> "lookup", err |-> NoErr, count |-> 0,
   collided |-> FALSE]

AllTasksDone(p) == \A k \in DOMAIN tasks[p] : tasks[p][k].pc = "done"

\* A range that starts at the watermark itself (the step past it forgotten).
StartCheckpointNoStep(last) == last

\* SyncTransactions lines 71-75: the first checkpoint of the range
StartCheckpoint(last) == IF last > 0 THEN last + 1 ELSE last

\* no SyncTransactions call is running
InitSync ==
  /\ latest = 0
  /\ pc = [p \in Passes |-> "idle"]
  /\ lastCheckpoint = [p \in Passes |-> 0]
  /\ latestCheckpoint = [p \in Passes |-> 0]
  /\ checkpoint = [p \in Passes |-> 0]
  /\ tasks = [p \in Passes |-> << >>]
  /\ totalTxCount = [p \in Passes |-> 0]
  /\ chirpTxCount = [p \in Passes |-> 0]
  /\ err = [p \in Passes |-> NoErr]
  /\ hStore0 = [p \in Passes |-> << >>]
  /\ hFailed = [p \in Passes |-> FALSE]
  /\ hMode = [p \in Passes |-> "none"]
  /\ hPrev = "none"
  /\ hNew = [p \in Passes |-> 0]
  /\ hFetched = [p \in Passes |-> << >>]

\* the request's context is alive
InitNoCancel ==
  /\ cancelled = FALSE
  /\ hAborted = FALSE

\* no fan-out is under way
InitNoFanOut ==
  /\ locators = 0
  /\ spawned = 0
  /\ finished = 0

\* no classification is under way
InitNoClassify ==
  /\ claimAddr = << >>
  /\ txIn = Nil
  /\ txOut = << >>

\* no read operation is under way
\* no batch of fetched blocks is being extracted
InitNoShape ==
  /\ shapeBatch = << >>
  /\ shapeTxs = << >>
  /\ shapeResult = Nil

\* no address scan is under way
InitNoScan ==
  /\ scanPc = "none"
  /\ cursor = Nil
  /\ response = Nil
  /\ totalCount = 0
  /\ scanErr = NoErr

InitNoRead ==
  /\ window = <<0, 0>>
  /\ stats = Nil
  /\ qEntry = "none"
  /\ qAddress = ""
  /\ qLimit = 0
  /\ qOffset = 0
  /\ qResult = Nil
  /\ dedupIn = << >>
  /\ dedupOut = Nil
  /\ InitNoShape
  /\ InitNoScan

\* no request is cancelled, no fan-out, no classification and no read is
\* under way
InitAux ==
  /\ InitNoCancel
  /\ InitNoFanOut
  /\ InitNoClassify
  /\ InitNoRead

\* no processBatchParallel call is running
InitNoBatch ==
  /\ batch = << >>
  /\ bpc = "off"
  /\ btasks = << >>
  /\ allChirpTxs = << >>
  /\ bresult = [count |-> 0, err |-> NoErr]
  /\ hSource = << >>
  /\ hBatchFailed = FALSE
  /\ hBatchStore0 = << >>
  /\ mu = 0

\* the service after NewChirpTransactionService on a migrated, empty table
Init ==
  /\ store = << >>
  /\ InitSync
  /\ InitAux
  /\ InitNoBatch

(***************************************************************************)
(* The ledger grows                                                        *)
(***************************************************************************)
LedgerAdvance ==
  /\ latest < MaxCp
  /\ latest' = latest + 1
  /\ hMode' = [p \in Passes |-> "none"]
  /\ hPrev' = "none"
  /\ UNCHANGED <<store, passVars, hStore0, hFailed, hNew, hFetched, batchVars,
                 auxVars>>

(***************************************************************************)
(* SyncTransactions                                                        *)
(***************************************************************************)
\* the call ends: SyncTransactions returns e
Finish(p, e) ==
  /\ pc' = [pc EXCEPT ![p] = "done"]
  /\ err' = [err EXCEPT ![p] = e]

\* lines 52-62: the call begins and reads the watermark from the table
StartSync(p) ==
  /\ pc[p] = "idle"
  /\ hStore0' = [hStore0 EXCEPT ![p] = store]
  /\ hNew' = [hNew EXCEPT ![p] = 0]
  /\ hFetched' = [hFetched EXCEPT ![p] = << >>]
  /\ hMode' = IF \A q \in Passes \ {p} : pc[q] = "idle"
                THEN [hMode EXCEPT ![p] =
                        IF hPrev = "clean" THEN "afterClean"
                        ELSE IF hPrev = "nil" THEN "afterNil"
                        ELSE "alone"]
                ELSE [q \in Passes |-> "none"]
  /\ \/ /\ Finish(p, <<"getting latest checkpoint from database">>)
        /\ hFailed' = [hFailed EXCEPT ![p] = TRUE]
        /\ UNCHANGED lastCheckpoint
     \/ /\ lastCheckpoint' = [lastCheckpoint EXCEPT ![p] = GetLatestCheckpoint(store)]
        /\ pc' = [pc EXCEPT ![p] = "readLatest"]
        /\ hFailed' = [hFailed EXCEPT ![p] = FALSE]
        /\ UNCHANGED err
  /\ UNCHANGED <<store, latest, latestCheckpoint, checkpoint, tasks,
                 totalTxCount, chirpTxCount, hPrev, batchVars, auxVars>>

\* lines 64-84: the ledger's latest checkpoint and the range to synchronise
ReadLatest(p) ==
  /\ pc[p] = "readLatest"
  /\ \/ /\ Finish(p, <<"getting latest checkpoint from blockchain">>)
        /\ hFailed' = [hFailed EXCEPT ![p] = TRUE]
        /\ UNCHANGED <<latestCheckpoint, checkpoint>>
     \/ /\ latestCheckpoint' = [latestCheckpoint EXCEPT ![p] = latest]
        /\ checkpoint' = [checkpoint EXCEPT ![p] = StartCheckpoint(lastCheckpoint[p])]
        /\ IF StartCheckpoint(lastCheckpoint[p]) > latest
             THEN Finish(p, NoErr)
             ELSE pc' = [pc EXCEPT ![p] = "getCheckpoint"] /\ UNCHANGED err
        /\ UNCHANGED hFailed
  /\ UNCHANGED <<store, latest, lastCheckpoint, tasks, totalTxCount,
                 chirpTxCount, hStore0, hMode, hPrev, hNew, hFetched,
                 batchVars, auxVars>>

\* A syncCheckpointRange that counts, of the transactions of the checkpoint,
\* only those whose digest is not stored yet.
FetchCheckpointCountsNew(p) ==
  /\ pc[p] = "getCheckpoint"
  /\ \/ /\ Finish(p, <<"getting checkpoint", checkpoint[p]>>)
        /\ hFailed' = [hFailed EXCEPT ![p] = TRUE]
        /\ UNCHANGED <<tasks, totalTxCount, hFetched>>
     \/ /\ LET cpData == GetCheckpoint(checkpoint[p])
               fresh == {k \in DOMAIN cpData.Transactions :
                           GetTransactionByDigest(store, cpData.Transactions[k])
                             = Nil}
           IN  /\ totalTxCount' =
                    [totalTxCount EXCEPT ![p] = @ + Cardinality(fresh)]
               /\ tasks' = [tasks EXCEPT ![p] =
                    [k \in 1..Len(cpData.Transactions) |->
                       NewTask(cpData.Transactions[k])]]
        /\ pc' = [pc EXCEPT ![p] = "wait"]
        /\ hFetched' = [hFetched EXCEPT ![p] = Append(@, checkpoint[p])]
        /\ UNCHANGED <<err, hFailed>>
  /\ UNCHANGED <<store, latest, lastCheckpoint, latestCheckpoint, checkpoint,
                 chirpTxCount, hStore0, hMode, hPrev, hNew, batchVars, auxVars>>

\* syncCheckpointRange lines 273-306: fetch the checkpoint and start one
\* goroutine per transaction of it
FetchCheckpoint(p) ==
  /\ pc[p] = "getCheckpoint"
  /\ \/ /\ Finish(p, <<"getting checkpoint", checkpoint[p]>>)
        /\ hFailed' = [hFailed EXCEPT ![p] = TRUE]
        /\ UNCHANGED <<tasks, totalTxCount, hFetched>>
     \/ /\ LET cpData == GetCheckpoint(checkpoint[p])
           IN  /\ totalTxCount' =
                    [totalTxCount EXCEPT ![p] = @ + Len(cpData.Transactions)]
               /\ tasks' = [tasks EXCEPT ![p] =
                    [k \in 1..Len(cpData.Transactions) |->
                       NewTask(cpData.Transactions[k])]]
        /\ pc' = [pc EXCEPT ![p] = "wait"]
        /\ hFetched' = [hFetched EXCEPT ![p] = Append(@, checkpoint[p])]
        /\ UNCHANGED <<err, hFailed>>
  /\ UNCHANGED <<store, latest, lastCheckpoint, latestCheckpoint, checkpoint,
                 chirpTxCount, hStore0, hMode, hPrev, hNew, batchVars, auxVars>>

\* the goroutine ends with processTransaction's result
TaskEnds(p, k, e, n, dup) ==
  tasks' = [tasks EXCEPT ![p][k] =
              [@ EXCEPT !.pc = "done", !.err = e, !.count = n, !.collided = dup]]

\* A processTransaction that goes on to the ledger whether or not the digest
\* is stored.
TaskLookupNoSkip(p, k) ==
  /\ pc[p] = "wait"
  /\ k \in DOMAIN tasks[p]
  /\ tasks[p][k].pc = "lookup"
  /\ \/ /\ TaskEnds(p, k, <<"checking existing transaction">>, 0, FALSE)
        /\ hFailed' = [hFailed EXCEPT ![p] = TRUE]
        /\ UNCHANGED hNew
     \/ /\ tasks' = [tasks EXCEPT ![p][k].pc = "fetch"]
        /\ hNew' = [hNew EXCEPT ![p] = @ + 1]
        /\ UNCHANGED hFailed
  /\ UNCHANGED <<store, latest, pc, lastCheckpoint, latestCheckpoint,
                 checkpoint, totalTxCount, chirpTxCount, err, hStore0, hMode,
                 hPrev, hFetched, batchVars, auxVars>>

\* processTransaction lines 314-321: is the digest already stored?
TaskLookup(p, k) ==
  /\ pc[p] = "wait"
  /\ k \in DOMAIN tasks[p]
  /\ tasks[p][k].pc = "lookup"
  /\ \/ /\ TaskEnds(p, k, <<"checking existing transaction">>, 0, FALSE)
        /\ hFailed' = [hFailed EXCEPT ![p] = TRUE]
        /\ UNCHANGED hNew
     \/ /\ GetTransactionByDigest(store, tasks[p][k].digest) # Nil
        /\ TaskEnds(p, k, NoErr, 0, FALSE)
        /\ UNCHANGED <<hFailed, hNew>>
     \/ /\ GetTransactionByDigest(store, tasks[p][k].digest) = Nil
        /\ tasks' = [tasks EXCEPT ![p][k].pc = "fetch"]
        /\ hNew' = [hNew EXCEPT ![p] = @ + 1]
        /\ UNCHANGED hFailed
  /\ UNCHANGED <<store, latest, pc, lastCheckpoint, latestCheckpoint,
                 checkpoint, totalTxCount, chirpTxCount, err, hStore0, hMode,
                 hPrev, hFetched, batchVars,
                 auxVars>>

\* processTransaction lines 323-336 for transaction k of checkpoint c, when
\* the fetch succeeds: the timestamp parse error, else the extracted events
ProcessedTx(c, k) ==
  LET cpData == GetCheckpoint(c)
  IN  IF k \notin DOMAIN cpData.Transactions THEN Nil
      ELSE [parseErr |-> ~parseTimestampOk(cpData.TimestampMs),
            chirpTxs |-> extractChirpTransactions(
                           TransactionBlock(cpData.Transactions[k]), c,
                           parseTimestamp(cpData.TimestampMs))]

\* ProcessedTx over the whole ledger (the ledger's content is fixed)
ProcessedLedger ==
  { [c |-> c, k |-> k, tx |-> ProcessedTx(c, k)] :
      c \in 0..MaxCp, k \in 1..2 } 

Processed(c, k) ==
  (CHOOSE e \in ProcessedLedger : e.c = c /\ e.k = k).tx

\* what processTransaction extracts from the transaction of task k
TaskChirpTxs(p, k) == Processed(checkpoint[p], k).chirpTxs

\* processTransaction lines 323-339: fetch the transaction, parse the
\* checkpoint's timestamp, extract; nothing to save ends the task
TaskFetch(p, k) ==
  /\ pc[p] = "wait"
  /\ k \in DOMAIN tasks[p]
  /\ tasks[p][k].pc = "fetch"
  /\ \/ /\ TaskEnds(p, k, <<"getting transaction block">>, 0, FALSE)
        /\ hFailed' = [hFailed EXCEPT ![p] = TRUE]
     \/ /\ UNCHANGED hFailed
        /\ IF Processed(checkpoint[p], k).parseErr
             THEN TaskEnds(p, k, <<"parsing timestamp">>, 0, FALSE)
           ELSE IF Len(TaskChirpTxs(p, k)) = 0
             THEN TaskEnds(p, k, NoErr, 0, FALSE)
           ELSE tasks' = [tasks EXCEPT ![p][k].pc = "save"]
  /\ UNCHANGED <<store, latest, pc, lastCheckpoint, latestCheckpoint,
                 checkpoint, totalTxCount, chirpTxCount, err, hStore0, hMode,
                 hPrev, hNew, hFetched,
                 batchVars, auxVars>>

\* some event of the batch has the (digest, recipient, amount, kind) of a
\* stored row
CollidesWithStore(st, txs) ==
  \E k \in DOMAIN txs, r \in DOMAIN st : DedupKey(txs[k]) = DedupKey(st[r])

\* processTransaction lines 339-350 and the goroutine's lines 295-304: the
\* bulk write, and the count added under the mutex
TaskSave(p, k) ==
  /\ pc[p] = "wait"
  /\ k \in DOMAIN tasks[p]
  /\ tasks[p][k].pc = "save"
  /\ LET chirpTxs == TaskChirpTxs(p, k)
         res == CreateTransactionsBatch(store, chirpTxs)
         dup == CollidesWithStore(store, chirpTxs)
     IN  \/ /\ TaskEnds(p, k, <<"saving transactions">>, 0, FALSE)
            /\ hFailed' = [hFailed EXCEPT ![p] = TRUE]
            /\ UNCHANGED <<store, chirpTxCount>>
         \/ /\ res.err
            /\ store' = res.store
            /\ TaskEnds(p, k, <<"saving transactions">>, 0, dup)
            /\ UNCHANGED <<chirpTxCount, hFailed>>
         \/ /\ ~res.err
            /\ store' = res.store
            /\ TaskEnds(p, k, NoErr, Len(chirpTxs), dup)
            /\ chirpTxCount' = [chirpTxCount EXCEPT ![p] = @ + Len(chirpTxs)]
            /\ UNCHANGED hFailed
  /\ UNCHANGED <<latest, pc, lastCheckpoint, latestCheckpoint, checkpoint,
                 totalTxCount, err, hStore0, hMode, hPrev, hNew, hFetched,
                 batchVars, auxVars>>

\* A syncCheckpointRange without the wg.Wait barrier: the loop moves on (and
\* the call returns) while goroutines of the checkpoint have not finished.
NextCheckpointNoWait(p) ==
  /\ pc[p] = "wait"
  /\ tasks' = [tasks EXCEPT ![p] = << >>]
  /\ checkpoint' = [checkpoint EXCEPT ![p] = @ + 1]
  /\ IF checkpoint[p] + 1 <= latestCheckpoint[p]
       THEN pc' = [pc EXCEPT ![p] = "getCheckpoint"] /\ UNCHANGED err
       ELSE pc' = [pc EXCEPT ![p] = "done"] /\ err' = [err EXCEPT ![p] = NoErr]
  /\ UNCHANGED <<store, latest, lastCheckpoint, latestCheckpoint,
                 totalTxCount, chirpTxCount, histVars, batchVars, auxVars>>

\* A syncCheckpointRange whose loop steps over every other checkpoint.
NextCheckpointStepsTwo(p) ==
  /\ pc[p] = "wait"
  /\ AllTasksDone(p)
  /\ tasks' = [tasks EXCEPT ![p] = << >>]
  /\ checkpoint' = [checkpoint EXCEPT ![p] = @ + 2]
  /\ IF checkpoint[p] + 2 <= latestCheckpoint[p]
       THEN pc' = [pc EXCEPT ![p] = "getCheckpoint"] /\ UNCHANGED err
       ELSE Finish(p, NoErr)
  /\ UNCHANGED <<store, latest, lastCheckpoint, latestCheckpoint,
                 totalTxCount, chirpTxCount, histVars, batchVars, auxVars>>

\* A syncCheckpointRange whose barrier lets the loop go on as soon as one
\* goroutine of the checkpoint has finished.
NextCheckpointWaitsForOne(p) ==
  /\ pc[p] = "wait"
  /\ \E k \in DOMAIN tasks[p] : tasks[p][k].pc = "done"
  /\ tasks' = [tasks EXCEPT ![p] = << >>]
  /\ checkpoint' = [checkpoint EXCEPT ![p] = @ + 1]
  /\ IF checkpoint[p] + 1 <= latestCheckpoint[p]
       THEN pc' = [pc EXCEPT ![p] = "getCheckpoint"] /\ UNCHANGED err
       ELSE Finish(p, NoErr)
  /\ UNCHANGED <<store, latest, lastCheckpoint, latestCheckpoint,
                 totalTxCount, chirpTxCount, histVars, batchVars, auxVars>>

\* syncCheckpointRange lines 307-310: wg.Wait, then the next checkpoint or
\* the end of the range
NextCheckpoint(p) ==
  /\ pc[p] = "wait"
  /\ AllTasksDone(p)
  /\ tasks' = [tasks EXCEPT ![p] = << >>]
  /\ checkpoint' = [checkpoint EXCEPT ![p] = @ + 1]
  /\ IF checkpoint[p] + 1 <= latestCheckpoint[p]
       THEN pc' = [pc EXCEPT ![p] = "getCheckpoint"] /\ UNCHANGED err
       ELSE Finish(p, NoErr)
  /\ UNCHANGED <<store, latest, lastCheckpoint, latestCheckpoint,
                 totalTxCount, chirpTxCount, histVars, batchVars, auxVars>>

\* SyncTransactions has returned; its locals are gone
Return(p) ==
  /\ pc[p] = "done"
  /\ pc' = [pc EXCEPT ![p] = "idle"]
  /\ lastCheckpoint' = [lastCheckpoint EXCEPT ![p] = 0]
  /\ latestCheckpoint' = [latestCheckpoint EXCEPT ![p] = 0]
  /\ checkpoint' = [checkpoint EXCEPT ![p] = 0]
  /\ tasks' = [tasks EXCEPT ![p] = << >>]
  /\ totalTxCount' = [totalTxCount EXCEPT ![p] = 0]
  /\ chirpTxCount' = [chirpTxCount EXCEPT ![p] = 0]
  /\ err' = [err EXCEPT ![p] = NoErr]
  /\ hStore0' = [hStore0 EXCEPT ![p] = << >>]
  /\ hFailed' = [hFailed EXCEPT ![p] = FALSE]
  /\ hMode' = [hMode EXCEPT ![p] = "none"]
  /\ hNew' = [hNew EXCEPT ![p] = 0]
  /\ hFetched' = [hFetched EXCEPT ![p] = << >>]
  /\ hPrev' = IF hMode[p] = "none" \/ err[p] # NoErr THEN "none"
              ELSE IF hFailed[p] THEN "nil"
              ELSE "clean"
  /\ UNCHANGED <<store, latest, batchVars, auxVars>>

Next ==
  \/ LedgerAdvance
  \/ \E p \in Passes : StartSync(p)
  \/ \E p \in Passes : ReadLatest(p)
  \/ \E p \in Passes : FetchCheckpoint(p)
  \/ \E p \in Passes, k \in 1..2 : TaskLookup(p, k)
  \/ \E p \in Passes, k \in 1..2 : TaskFetch(p, k)
  \/ \E p \in Passes, k \in 1..2 : TaskSave(p, k)
  \/ \E p \in Passes : NextCheckpoint(p)
  \/ \E p \in Passes : Return(p)

Spec == Init /\ [][Next]_vars


(***************************************************************************)
(* A SyncTransactions call running alone with every call answering        *)
(***************************************************************************)
\* processTransaction on transaction k of checkpoint c: the table it leaves
processTransaction(st, c, k) ==
  IF GetTransactionByDigest(st, CheckpointTxs(c)[k]) # Nil THEN st
  ELSE IF Processed(c, k).parseErr THEN st
  ELSE CreateTransactionsBatch(st, Processed(c, k).chirpTxs).store

\* SyncTransactions from watermark last to the ledger's checkpoint lat: the
\* table it leaves, the transactions taken in the ledger's order
SinglePass(st, last, lat) ==
  LET S == {x \in (0..MaxCp) \X (1..2) :
              /\ x[1] >= StartCheckpoint(last)
              /\ x[1] <= lat
              /\ x[2] \in DOMAIN CheckpointTxs(x[1])}
      rank(x) == Cardinality({y \in S : \/ y[1] < x[1]
                                        \/ y[1] = x[1] /\ y[2] < x[2]}) + 1
      step[i \in 1..Cardinality(S)] == CHOOSE x \in S : rank(x) = i
      run[i \in 0..Cardinality(S)] ==
        IF i = 0 THEN st
        ELSE processTransaction(run[i - 1], step[i][1], step[i][2])
  IN  run[Cardinality(S)]

(***************************************************************************)
(* processBatchParallel                                                    *)
(***************************************************************************)
\* the digests of the ledger's transactions
LedgerDigests ==
  UNION {{CheckpointTxs(c)[k] : k \in DOMAIN CheckpointTxs(c)} : c \in 0..MaxCp}

\* the zero time.Time
ZeroTime == "0001-01-01T00:00:00Z"

\* fmt.Sscanf(s, "%d", &checkpoint): the leading digits, 0 when there is none
ScanUint(s) ==
  LET n == Cardinality({k \in 1..Len(s) : \A j \in 1..k : IsDigit(s[j])})
  IN  DigitsVal(SubSeq(s, 1, n))

\* the goroutine of processBatchParallel on the block tx, after the lookup:
\* the timestamp parse error, else the extracted events
ProcessedBlock(tx) ==
  [parseErr |-> /\ tx.TimestampMs # Nil
                /\ ~parseTimestampOk(tx.TimestampMs.val),
   chirpTxs |-> extractChirpTransactions(tx,
                  IF tx.Checkpoint # Nil THEN ScanUint(tx.Checkpoint.val)
                                         ELSE 0,
                  IF tx.TimestampMs # Nil
                    THEN parseTimestamp(tx.TimestampMs.val)
                    ELSE ZeroTime)]

\* the same on the ledger's block of digest d
BatchProcessedTx(d) == ProcessedBlock(TransactionBlock(d))

\* BatchProcessedTx over the whole ledger
BatchLedger == { [d |-> d, tx |-> BatchProcessedTx(d)] : d \in LedgerDigests }

BatchProcessed(d) == (CHOOSE e \in BatchLedger : e.d = d).tx

\* the batches of a page: up to MaxBatch blocks of the ledger, repeats allowed
BatchInputs == UNION {[1..n -> LedgerDigests] : n \in 0..MaxBatch}

\* the tables earlier synchronisation can have left
InitStores == {SinglePass(<< >>, 0, n) : n \in 0..MaxCp}

\* processBatchParallel is called with a batch: its goroutines are started
InitBatch ==
  /\ store \in InitStores
  /\ hBatchStore0 = store
  /\ InitSync
  /\ InitAux
  /\ batch \in BatchInputs
  /\ bpc = "wait"
  /\ btasks = [k \in DOMAIN batch |-> "lookup"]
  /\ allChirpTxs = << >>
  /\ bresult = [count |-> 0, err |-> NoErr]
  /\ hSource = << >>
  /\ hBatchFailed = FALSE
  /\ mu = 0

\* the goroutine of block k has returned: "failed" after a logged error,
\* "done" otherwise
BatchTaskEnded(k) == btasks[k] \in {"done", "failed"}

\* lines 194-202: is the digest already stored?
BatchLookup(k) ==
  /\ bpc = "wait"
  /\ k \in DOMAIN btasks
  /\ btasks[k] = "lookup"
  /\ \/ /\ btasks' = [btasks EXCEPT ![k] = "failed"]
        /\ hBatchFailed' = TRUE
     \/ /\ GetTransactionByDigest(store, batch[k]) # Nil
        /\ btasks' = [btasks EXCEPT ![k] = "done"]
        /\ UNCHANGED hBatchFailed
     \/ /\ GetTransactionByDigest(store, batch[k]) = Nil
        /\ btasks' = [btasks EXCEPT ![k] = "extract"]
        /\ UNCHANGED hBatchFailed
  /\ UNCHANGED <<store, syncVars, auxVars, batch, bpc, allChirpTxs, bresult,
                 hSource, hBatchStore0, mu>>

\* A goroutine that appends without the mutex: the append of a goroutine that
\* read the slice header earlier is lost.
BatchExtractNoMutex(k) ==
  /\ bpc = "wait"
  /\ k \in DOMAIN btasks
  /\ btasks[k] = "extract"
  /\ btasks' = [btasks EXCEPT ![k] =
                  IF BatchProcessed(batch[k]).parseErr THEN "failed" ELSE "done"]
  /\ LET chirpTxs == BatchProcessed(batch[k]).chirpTxs
     IN  IF BatchProcessed(batch[k]).parseErr \/ Len(chirpTxs) = 0
           THEN UNCHANGED <<allChirpTxs, hSource>>
           ELSE /\ allChirpTxs' = chirpTxs
                /\ hSource' = [i \in 1..Len(chirpTxs) |-> k]
  /\ UNCHANGED <<store, syncVars, auxVars, batch, bpc, bresult, hBatchFailed,
                 hBatchStore0, mu>>

\* lines 204-228: parse, extract, and append under the mutex
BatchExtract(k) ==
  /\ bpc = "wait"
  /\ k \in DOMAIN btasks
  /\ btasks[k] = "extract"
  /\ btasks' = [btasks EXCEPT ![k] =
                  IF BatchProcessed(batch[k]).parseErr THEN "failed" ELSE "done"]
  /\ LET chirpTxs == BatchProcessed(batch[k]).chirpTxs
     IN  IF BatchProcessed(batch[k]).parseErr \/ Len(chirpTxs) = 0
           THEN UNCHANGED <<allChirpTxs, hSource>>
           ELSE /\ allChirpTxs' = allChirpTxs \o chirpTxs
                /\ hSource' = hSource \o [i \in 1..Len(chirpTxs) |-> k]
  /\ UNCHANGED <<store, syncVars, auxVars, batch, bpc, bresult, hBatchFailed,
                 hBatchStore0, mu>>

\* A processBatchParallel without the wg.Wait barrier: it deduplicates,
\* writes and returns while goroutines of the batch are still running.
BatchSaveNoWait ==
  /\ bpc = "wait"
  /\ bpc' = "done"
  /\ LET uniqueTxs == deduplicateTransactions(allChirpTxs)
         res == CreateTransactionsBatch(store, uniqueTxs)
     IN  \/ /\ Len(uniqueTxs) > 0
            /\ bresult' = [count |-> 0,
                           err |-> <<"saving transactions batch", "connection">>]
            /\ hBatchFailed' = TRUE
            /\ UNCHANGED store
         \/ /\ res.err
            /\ bresult' = [count |-> 0,
                           err |-> <<"saving transactions batch", "duplicate key">>]
            /\ UNCHANGED <<store, hBatchFailed>>
         \/ /\ ~res.err
            /\ store' = res.store
            /\ bresult' = [count |-> Len(uniqueTxs), err |-> NoErr]
            /\ UNCHANGED hBatchFailed
  /\ UNCHANGED <<syncVars, auxVars, batch, btasks, allChirpTxs, hSource,
                 hBatchStore0, mu>>

\* lines 231-245: wg.Wait, deduplicate, one bulk write, return
BatchSave ==
  /\ bpc = "wait"
  /\ \A k \in DOMAIN btasks : BatchTaskEnded(k)
  /\ bpc' = "done"
  /\ LET uniqueTxs == deduplicateTransactions(allChirpTxs)
         res == CreateTransactionsBatch(store, uniqueTxs)
     IN  \/ /\ Len(uniqueTxs) > 0
            /\ bresult' = [count |-> 0,
                           err |-> <<"saving transactions batch", "connection">>]
            /\ hBatchFailed' = TRUE
            /\ UNCHANGED store
         \/ /\ res.err
            /\ bresult' = [count |-> 0,
                           err |-> <<"saving transactions batch", "duplicate key">>]
            /\ UNCHANGED <<store, hBatchFailed>>
         \/ /\ ~res.err
            /\ store' = res.store
            /\ bresult' = [count |-> Len(uniqueTxs), err |-> NoErr]
            /\ UNCHANGED hBatchFailed
  /\ UNCHANGED <<syncVars, auxVars, batch, btasks, allChirpTxs, hSource,
                 hBatchStore0, mu>>

\* processBatchParallel with one worker and every call answering: the blocks
\* are taken one after the other in the order of the batch; the table it leaves
SequentialBatch(st, blocks) ==
  LET collected[k \in 0..Len(blocks)] ==
        IF k = 0 THEN << >>
        ELSE IF GetTransactionByDigest(st, blocks[k]) # Nil
          THEN collected[k - 1]
        ELSE IF BatchProcessed(blocks[k]).parseErr THEN collected[k - 1]
        ELSE collected[k - 1] \o BatchProcessed(blocks[k]).chirpTxs
  IN  CreateTransactionsBatch(
        st, deduplicateTransactions(collected[Len(blocks)])).store

NextBatch ==
  \/ \E k \in 1..MaxBatch : BatchLookup(k)
  \/ \E k \in 1..MaxBatch : BatchExtract(k)
  \/ BatchSave

SpecBatch == InitBatch /\ [][NextBatch]_vars


(***************************************************************************)
(* The fan-out of syncCheckpointRange and processBatchParallel, counted    *)
(***************************************************************************)
\* the largest number of locators of one fan-out
MaxLocators == 12

\* sync.max_workers as the documentation configures it
MaxWorkers == 10

\* the loop is entered with a checkpoint's (or a page's) locators
InitFanOut ==
  /\ store = << >>
  /\ InitSync
  /\ InitNoBatch
  /\ InitNoCancel
  /\ InitNoClassify
  /\ InitNoRead
  /\ locators \in 0..MaxLocators
  /\ spawned = 0
  /\ finished = 0

\* one turn of the loop: wg.Add(1) and the go statement.  Nothing but the
\* number of locators left guards it.
Spawn ==
  /\ spawned < locators
  /\ spawned' = spawned + 1
  /\ UNCHANGED <<store, syncVars, batchVars, ctxVars, locators, finished,
                 classVars, readVars>>

\* a goroutine returns: the deferred wg.Done
TaskDone ==
  /\ finished < spawned
  /\ finished' = finished + 1
  /\ UNCHANGED <<store, syncVars, batchVars, ctxVars, locators, spawned,
                 classVars, readVars>>

\* the goroutines that have been started and have not returned
Running == spawned - finished

NextFanOut ==
  \/ Spawn
  \/ TaskDone

SpecFanOut == InitFanOut /\ [][NextFanOut]_vars

(***************************************************************************)
(* SyncTransactions under the context of an HTTP request that can be       *)
(* cancelled.  Every ledger call is makeRPCCall: a request built with      *)
(* http.NewRequestWithContext, so a call made with a cancelled context     *)
(* fails before a request is sent, and a call in flight when the context   *)
(* is cancelled either has its response already or is aborted.             *)
(***************************************************************************)
\* the caller whose context is r.Context()
Request == "http"

\* the context's error, wrapped as cause
ContextCanceled == "context canceled"

\* the pass runs over a ledger of some height and a table some earlier
\* synchronisation left
InitCancel ==
  /\ store \in InitStores
  /\ InitSync
  /\ InitAux
  /\ InitNoBatch

\* the ledger has some height when the request arrives
LedgerHeight ==
  /\ pc[Request] = "idle"
  /\ latest = 0
  /\ \E n \in 1..MaxCp : n >= GetLatestCheckpoint(store) /\ latest' = n
  /\ UNCHANGED <<store, passVars, histVars, batchVars, auxVars>>

\* the client goes away: r.Context() is cancelled while the pass runs
CancelRequest ==
  /\ ~cancelled
  /\ pc[Request] \notin {"idle", "done"}
  /\ cancelled' = TRUE
  /\ UNCHANGED <<store, syncVars, batchVars, hAborted, fanVars, classVars,
                 readVars>>

\* SyncTransactions line 65: suiClient.GetLatestCheckpoint(ctx) is called
CallGetLatestCheckpoint ==
  /\ pc[Request] = "readLatest"
  /\ IF cancelled
       THEN Finish(Request, <<"getting latest checkpoint from blockchain",
                              ContextCanceled>>)
       ELSE pc' = [pc EXCEPT ![Request] = "inGetLatestCheckpoint"]
            /\ UNCHANGED err
  /\ UNCHANGED <<store, latest, lastCheckpoint, latestCheckpoint, checkpoint,
                 tasks, totalTxCount, chirpTxCount, histVars, batchVars,
                 auxVars>>

\* lines 65-84: the call returns
ReturnGetLatestCheckpoint ==
  /\ pc[Request] = "inGetLatestCheckpoint"
  /\ \/ /\ cancelled
        /\ hAborted' = TRUE
        /\ Finish(Request, <<"getting latest checkpoint from blockchain",
                              ContextCanceled>>)
        /\ UNCHANGED <<latestCheckpoint, checkpoint>>
     \/ /\ Finish(Request, <<"getting latest checkpoint from blockchain">>)
        /\ UNCHANGED <<latestCheckpoint, checkpoint, hAborted>>
     \/ /\ latestCheckpoint' = [latestCheckpoint EXCEPT ![Request] = latest]
        /\ checkpoint' = [checkpoint EXCEPT ![Request] =
                            StartCheckpoint(lastCheckpoint[Request])]
        /\ IF StartCheckpoint(lastCheckpoint[Request]) > latest
             THEN Finish(Request, NoErr)
             ELSE pc' = [pc EXCEPT ![Request] = "getCheckpoint"]
                  /\ UNCHANGED err
        /\ UNCHANGED hAborted
  /\ UNCHANGED <<store, latest, lastCheckpoint, tasks, totalTxCount,
                 chirpTxCount, histVars, batchVars, cancelled, fanVars,
                 classVars, readVars>>

\* A GetCheckpoint that is sent whatever the state of the context.
CallGetCheckpointIgnoresCtx ==
  /\ pc[Request] = "getCheckpoint"
  /\ pc' = [pc EXCEPT ![Request] = "inGetCheckpoint"]
  /\ UNCHANGED err
  /\ UNCHANGED <<store, latest, lastCheckpoint, latestCheckpoint, checkpoint,
                 tasks, totalTxCount, chirpTxCount, histVars, batchVars,
                 auxVars>>

\* syncCheckpointRange line 273: suiClient.GetCheckpoint(ctx, checkpoint) is
\* called
CallGetCheckpoint ==
  /\ pc[Request] = "getCheckpoint"
  /\ IF cancelled
       THEN Finish(Request, <<"getting checkpoint", checkpoint[Request],
                              ContextCanceled>>)
       ELSE pc' = [pc EXCEPT ![Request] = "inGetCheckpoint"]
            /\ UNCHANGED err
  /\ UNCHANGED <<store, latest, lastCheckpoint, latestCheckpoint, checkpoint,
                 tasks, totalTxCount, chirpTxCount, histVars, batchVars,
                 auxVars>>

\* lines 273-306: the call returns; one goroutine per transaction
ReturnGetCheckpoint ==
  /\ pc[Request] = "inGetCheckpoint"
  /\ \/ /\ cancelled
        /\ hAborted' = TRUE
        /\ Finish(Request, <<"getting checkpoint", checkpoint[Request],
                              ContextCanceled>>)
        /\ UNCHANGED <<tasks, totalTxCount>>
     \/ /\ Finish(Request, <<"getting checkpoint", checkpoint[Request]>>)
        /\ UNCHANGED <<tasks, totalTxCount, hAborted>>
     \/ /\ LET cpData == GetCheckpoint(checkpoint[Request])
           IN  /\ totalTxCount' = [totalTxCount EXCEPT ![Request] =
                                     @ + Len(cpData.Transactions)]
               /\ tasks' = [tasks EXCEPT ![Request] =
                    [k \in 1..Len(cpData.Transactions) |->
                       NewTask(cpData.Transactions[k])]]
        /\ pc' = [pc EXCEPT ![Request] = "wait"]
        /\ UNCHANGED <<err, hAborted>>
  /\ UNCHANGED <<store, latest, lastCheckpoint, latestCheckpoint, checkpoint,
                 chirpTxCount, histVars, batchVars, cancelled, fanVars,
                 classVars, readVars>>

\* processTransaction lines 314-321 under ctx: gorm's WithContext(ctx) query
\* fails on a cancelled context
CtxTaskLookup(k) ==
  IF cancelled
    THEN /\ pc[Request] = "wait"
         /\ k \in DOMAIN tasks[Request]
         /\ tasks[Request][k].pc = "lookup"
         /\ TaskEnds(Request, k, <<"checking existing transaction",
                                   ContextCanceled>>, 0, FALSE)
         /\ UNCHANGED <<store, latest, pc, lastCheckpoint, latestCheckpoint,
                        checkpoint, totalTxCount, chirpTxCount, err, histVars,
                        batchVars, auxVars>>
    ELSE TaskLookup(Request, k)

\* processTransaction line 324: suiClient.GetTransactionBlock(ctx, digest) is
\* called
CallGetTransactionBlock(k) ==
  /\ pc[Request] = "wait"
  /\ k \in DOMAIN tasks[Request]
  /\ tasks[Request][k].pc = "fetch"
  /\ IF cancelled
       THEN TaskEnds(Request, k, <<"getting transaction block",
                                  ContextCanceled>>, 0, FALSE)
       ELSE tasks' = [tasks EXCEPT ![Request][k].pc = "inGetTransactionBlock"]
  /\ UNCHANGED <<store, latest, pc, lastCheckpoint, latestCheckpoint,
                 checkpoint, totalTxCount, chirpTxCount, err, histVars,
                 batchVars, auxVars>>

\* lines 324-339: the call returns; the timestamp is parsed and the events
\* extracted
ReturnGetTransactionBlock(k) ==
  /\ pc[Request] = "wait"
  /\ k \in DOMAIN tasks[Request]
  /\ tasks[Request][k].pc = "inGetTransactionBlock"
  /\ \/ /\ cancelled
        /\ hAborted' = TRUE
        /\ TaskEnds(Request, k, <<"getting transaction block",
                                  ContextCanceled>>, 0, FALSE)
     \/ /\ TaskEnds(Request, k, <<"getting transaction block">>, 0, FALSE)
        /\ UNCHANGED hAborted
     \/ /\ UNCHANGED hAborted
        /\ IF Processed(checkpoint[Request], k).parseErr
             THEN TaskEnds(Request, k, <<"parsing timestamp">>, 0, FALSE)
           ELSE IF Len(TaskChirpTxs(Request, k)) = 0
             THEN TaskEnds(Request, k, NoErr, 0, FALSE)
           ELSE tasks' = [tasks EXCEPT ![Request][k].pc = "save"]
  /\ UNCHANGED <<store, latest, pc, lastCheckpoint, latestCheckpoint,
                 checkpoint, totalTxCount, chirpTxCount, err, histVars,
                 batchVars, cancelled, fanVars, classVars,
                 readVars>>

\* processTransaction lines 339-350 under ctx: the INSERT fails on a
\* cancelled context
CtxTaskSave(k) ==
  IF cancelled
    THEN /\ pc[Request] = "wait"
         /\ k \in DOMAIN tasks[Request]
         /\ tasks[Request][k].pc = "save"
         /\ TaskEnds(Request, k, <<"saving transactions", ContextCanceled>>,
                     0, FALSE)
         /\ UNCHANGED <<store, latest, pc, lastCheckpoint, latestCheckpoint,
                        checkpoint, totalTxCount, chirpTxCount, err, histVars,
                        batchVars, auxVars>>
    ELSE TaskSave(Request, k)

NextCancel ==
  \/ LedgerHeight
  \/ StartSync(Request)
  \/ CancelRequest
  \/ CallGetLatestCheckpoint
  \/ ReturnGetLatestCheckpoint
  \/ CallGetCheckpoint
  \/ ReturnGetCheckpoint
  \/ \E k \in 1..2 : CtxTaskLookup(k)
  \/ \E k \in 1..2 : CallGetTransactionBlock(k)
  \/ \E k \in 1..2 : ReturnGetTransactionBlock(k)
  \/ \E k \in 1..2 : CtxTaskSave(k)
  \/ NextCheckpoint(Request)

\* goroutines are scheduled and every call returns (the HTTP client has a
\* 30 s timeout), so the pass keeps taking steps
SpecCancel == InitCancel /\ [][NextCancel]_vars /\ WF_vars(NextCancel)

(***************************************************************************)
(* Classification: processTransaction on one fetched block, with a service *)
(* configured with some claimAddr                                          *)
(***************************************************************************)
\* blockchainInfo.claimAddress, "package::module::function", as its three
\* parts; the second is a deployment whose claim function has another name
ClaimAddrs ==
  { <<"0x7694", "chirp", "claim">>, <<"0x7694", "chirp", "claim_rewards">> }

MoveCall(package, module, function) ==
  [MoveCall |-> [package |-> package, module |-> module,
                 function |-> function]]

\* the programmable commands of the blocks classified
CommandVariants ==
  { << [TransferObjects |-> "coin"] >>,
    << MoveCall("0x7694", "chirp", "claim") >>,
    << MoveCall("0x7694", "chirp", "claim_rewards") >>,
    << MoveCall("0xdex", "pool", "swap") >>,
    << [TransferObjects |-> "coin"], MoveCall("0x7694", "chirp", "claim") >> }

\* Event{Type}
Event(type) == [Type |-> type]

\* the events of the blocks classified: none, a StakeProof event, a
\* "...::stake" event, a "...::unstake" event, an unrelated event, and an
\* unrelated event followed by an unstake event
EventVariants ==
  { << >>,
    << Event(<<"x", ":", ":">> \o StakeProofMarker) >>,
    << Event(<<"x", ":", ":">> \o StakeMarker) >>,
    << Event(<<"x", ":", ":">> \o UnstakeMarker) >>,
    << Event(<<"x", ":", ":", "s", "w", "a", "p">>) >>,
    << Event(<<"x", ":", ":", "s", "w", "a", "p">>),
       Event(<<"x", ":", ":">> \o UnstakeMarker) >> }

\* the amounts of the tracked balance changes of the blocks classified
AmountVariants ==
  { << <<"-", "5">> >>, << <<"0">> >>, << <<"5">> >>,
    << <<"-", "5">>, <<"5">> >>, << <<"0">>, <<"5">> >> }

\* a fetched block with the given commands, events and tracked balance
\* changes, and the sender's gas change
ClassifyBlock(cmds, evs, amts) ==
  [Digest |-> <<1, 1>>,
   Transaction |->
     [Data |-> [Sender |-> "0xalice",
                Transaction |-> [Kind |-> "ProgrammableTransaction",
                                 Transactions |-> cmds]]],
   Effects |-> [Status |-> [Status |-> "success"],
                GasUsed |-> GasUsedOf(<<"4">>, <<"3">>, <<"2">>)],
   Events |-> evs,
   BalanceChanges |->
     [k \in 1..Len(amts) |-> BalanceChange("0xbob", "", chirpToken, amts[k])]
     \o << BalanceChange("0xalice", "", SuiCoin, <<"-", "3">>) >>,
   TimestampMs |-> [val |-> CheckpointTimestampMs(1)],
   Checkpoint |-> [val |-> FormatInt(1)]]

ClassifyInputs ==
  { ClassifyBlock(cmds, evs, amts) :
      cmds \in CommandVariants, evs \in EventVariants,
      amts \in AmountVariants }

\* NewChirpTransactionService(..., claimAddr, ...) on an empty table, and a
\* block GetTransactionBlock returned
InitClassify ==
  /\ store = << >>
  /\ InitSync
  /\ InitNoBatch
  /\ InitNoCancel
  /\ InitNoFanOut
  /\ InitNoRead
  /\ claimAddr \in ClaimAddrs
  /\ txIn \in ClassifyInputs
  /\ txOut = << >>

\* processTransaction lines 329-350: extract the events and save them
ClassifyAndSave ==
  /\ txIn # Nil
  /\ txOut = << >>
  /\ LET chirpTxs == extractChirpTransactions(txIn, 1, parseTimestamp(txIn.TimestampMs.val))
     IN  /\ txOut' = chirpTxs
         /\ store' = CreateTransactionsBatch(store, chirpTxs).store
  /\ UNCHANGED <<syncVars, batchVars, ctxVars, fanVars, claimAddr, txIn,
                 readVars>>

NextClassify == ClassifyAndSave

SpecClassify == InitClassify /\ [][NextClassify]_vars

(***************************************************************************)
(* GetStatistics over a table of stored transactions                       *)
(***************************************************************************)
\* the largest table the statistics are asked of
MaxRows == 2

\* the senders of the stored transactions
StatSenders == {"0xalice", "0xbob"}

\* the (kind, amount) of the stored transactions: a claim of 100 and a sale
\* of 40
StatKinds == { <<"claim", <<"1", "0", "0">> >>, <<"sell", <<"-", "4", "0">> >> }

\* the times of the stored transactions
StatTimes == 0..3

\* the periods asked for
StatWindows == { <<1, 2>> }

\* a stored transaction
StatRow(sender, kind, time, success) ==
  [ID |-> 0, Digest |-> <<sender, kind, time, success>>, Sender |-> sender,
   Recipient |-> "0xvault", Amount |-> kind[2], TransactionType |-> kind[1],
   Checkpoint |-> time, Timestamp |-> time, Success |-> success,
   GasFee |-> <<"5">>]

StatRows ==
  { StatRow(sender, kind, time, success) :
      sender \in StatSenders, kind \in StatKinds, time \in StatTimes,
      success \in BOOLEAN }

\* the place of a stored transaction in the order of insertion: by time,
\* then by sender, kind and outcome
StatRank(row) ==
  8 * row.Timestamp + (IF row.Sender = "0xalice" THEN 0 ELSE 4)
    + (IF row.TransactionType = "claim" THEN 0 ELSE 2)
    + (IF row.Success THEN 0 ELSE 1)

\* the tables: up to MaxRows stored transactions of distinct digests, inserted
\* in that order
StatStores ==
  UNION { { InsertRows(<< >>, txs) :
              txs \in { s \in [1..n -> StatRows] :
                          \A i, j \in 1..n :
                            i < j => StatRank(s[i]) < StatRank(s[j]) } } :
          n \in 0..MaxRows }

\* WHERE timestamp >= ? AND timestamp <= ?
InPeriod(row, from, to) == row.Timestamp >= from /\ row.Timestamp <= to

\* SUM(CAST(amount AS DECIMAL)) over the rows r of st taken in order
SumAmounts(st, rows) ==
  LET sum[k \in 0..Len(st)] ==
        IF k = 0 THEN 0
        ELSE IF k \in rows THEN sum[k - 1] + ParseInt(st[k].Amount)
        ELSE sum[k - 1]
  IN  sum[Len(st)]

\* the total_amount of the group of one transaction_type, "0" when the
\* period holds no successful row of the type (lines 186-233)
TotalOfType(st, from, to, type) ==
  LET rows == {r \in DOMAIN st : /\ InPeriod(st[r], from, to)
                                 /\ st[r].Success
                                 /\ st[r].TransactionType = type}
  IN  IF rows = {} THEN <<"0">> ELSE FormatInt(SumAmounts(st, rows))

\* A GetStatistics whose period excludes its end.
GetStatisticsHalfOpen(st, from, to) ==
  LET Rows == {r \in DOMAIN st : st[r].Timestamp >= from /\ st[r].Timestamp < to}
      Tot(type) ==
        LET rows == {r \in Rows : st[r].Success /\ st[r].TransactionType = type}
        IN  IF rows = {} THEN <<"0">> ELSE FormatInt(SumAmounts(st, rows))
  IN  [err |-> NoErr,
       TotalClaimed |-> Tot("claim"),
       TotalTransferred |-> Tot("transfer"),
       TotalStaked |-> Tot("stake"),
       TotalBought |-> Tot("buy"),
       TotalSold |-> Tot("sell"),
       UniqueHolders |-> Cardinality({st[r].Sender : r \in Rows}),
       TotalTxCount |-> Cardinality({r \in Rows : st[r].Success}),
       PeriodStart |-> from,
       PeriodEnd |-> to]

\* A GetStatistics that counts the senders of successful rows only.
GetStatisticsHoldersGated(st, from, to) ==
  [err |-> NoErr,
   TotalClaimed |-> TotalOfType(st, from, to, "claim"),
   TotalTransferred |-> TotalOfType(st, from, to, "transfer"),
   TotalStaked |-> TotalOfType(st, from, to, "stake"),
   TotalBought |-> TotalOfType(st, from, to, "buy"),
   TotalSold |-> TotalOfType(st, from, to, "sell"),
   UniqueHolders |->
     Cardinality({st[r].Sender : r \in {q \in DOMAIN st :
                     InPeriod(st[q], from, to) /\ st[q].Success}}),
   TotalTxCount |->
     Cardinality({r \in DOMAIN st : InPeriod(st[r], from, to) /\ st[r].Success}),
   PeriodStart |-> from,
   PeriodEnd |-> to]

\* ChirpTransactionRepository.GetStatistics when the three queries answer
GetStatistics(st, from, to) ==
  [err |-> NoErr,
   TotalClaimed |-> TotalOfType(st, from, to, "claim"),
   TotalTransferred |-> TotalOfType(st, from, to, "transfer"),
   TotalStaked |-> TotalOfType(st, from, to, "stake"),
   TotalBought |-> TotalOfType(st, from, to, "buy"),
   TotalSold |-> TotalOfType(st, from, to, "sell"),
   UniqueHolders |->
     Cardinality({st[r].Sender : r \in {q \in DOMAIN st :
                                          InPeriod(st[q], from, to)}}),
   TotalTxCount |->
     Cardinality({r \in DOMAIN st : InPeriod(st[r], from, to) /\ st[r].Success}),
   PeriodStart |-> from,
   PeriodEnd |-> to]

\* a table of stored transactions and a period
InitStats ==
  /\ store \in StatStores
  /\ InitSync
  /\ InitNoBatch
  /\ InitNoCancel
  /\ InitNoFanOut
  /\ InitNoClassify
  /\ window \in StatWindows
  /\ stats = Nil
  /\ qEntry = "none"
  /\ qAddress = ""
  /\ qLimit = 0
  /\ qOffset = 0
  /\ qResult = Nil
  /\ dedupIn = << >>
  /\ dedupOut = Nil
  /\ InitNoShape
  /\ InitNoScan

\* ChirpTransactionService.GetStatistics(ctx, start, end): the repository's
\* answer, or the error of one of its queries
CallGetStatistics ==
  /\ stats = Nil
  /\ \/ stats' = GetStatistics(store, window[1], window[2])
     \/ \E e \in { <<"counting transactions">>, <<"counting unique holders">>,
                    <<"aggregating amounts">> } : stats' = [err |-> e]
  /\ UNCHANGED <<store, syncVars, batchVars, ctxVars, fanVars, classVars,
                 window, qryVars, dedupVars, shapeVars, scanVars>>

NextStats == CallGetStatistics

SpecStats == InitStats /\ [][NextStats]_vars

(***************************************************************************)
(* GetTransactionsByAddress: the repository query, the service method and  *)
(* the HTTP and gRPC handlers in front of it                               *)
(***************************************************************************)
\* the largest limit the handlers let through
MaxLimit == 1000

\* the limit the handlers use when none (or a non-positive one) is given
DefaultLimit == 50

\* toDomainTransaction: the primary key becomes its decimal string
toDomainTransaction(model) == [model EXCEPT !.ID = FormatInt(model.ID)]

\* WHERE sender = ? OR recipient = ?
MatchingRows(st, address) ==
  {r \in DOMAIN st : st[r].Sender = address \/ st[r].Recipient = address}

\* the largest timestamp of the table (0 for an empty one)
LastTime(st) ==
  IF st = << >> THEN 0
  ELSE LET times == {st[r].Timestamp : r \in DOMAIN st}
       IN  CHOOSE t \in times : \A u \in times : u <= t

\* the orders in which the rows of a set can be listed
Listings(S) ==
  {f \in [1..Cardinality(S) -> S] :
     \A i, j \in 1..Cardinality(S) : i # j => f[i] # f[j]}

RECURSIVE OrderedFrom(_, _, _, _)
\* ORDER BY timestamp DESC over the rows M of st with timestamps in lo..hi:
\* every order SQL allows (rows of equal timestamp come in any order)
OrderedFrom(st, M, lo, hi) ==
  IF lo = hi
    THEN Listings({r \in M : st[r].Timestamp = lo})
    ELSE LET mid == (lo + hi) \div 2
         IN  {later \o earlier :
                later \in OrderedFrom(st, M, mid + 1, hi),
                earlier \in OrderedFrom(st, M, lo, mid)}

\* A page cut without the OFFSET clause.
PagesNoOffset(ord, limit, offset) ==
  LET head == SubSeq(ord, 1, IF limit < Len(ord) THEN limit ELSE Len(ord))
  IN  IF limit < 0 THEN {ord}
      ELSE IF limit = 0 THEN {ord, << >>}
      ELSE {head}

\* LIMIT and OFFSET as gorm builds them: OFFSET only when positive, LIMIT
\* never when negative; whether Limit(0) is LIMIT 0 or no LIMIT depends on
\* the gorm release
Pages(ord, limit, offset) ==
  LET rest == IF offset > 0 THEN SubSeq(ord, offset + 1, Len(ord)) ELSE ord
      head == SubSeq(rest, 1, IF limit < Len(rest) THEN limit ELSE Len(rest))
  IN  IF limit < 0 THEN {rest}
      ELSE IF limit = 0 THEN {rest, << >>}
      ELSE {head}

\* ChirpTransactionRepository.GetTransactionsByAddress: the results the
\* query can give
RepoTransactionsByAddress(st, address, limit, offset) ==
  UNION { { [i \in 1..Len(page) |-> toDomainTransaction(st[page[i]])] :
              page \in Pages(ord, limit, offset) } :
          ord \in OrderedFrom(st, MatchingRows(st, address), 0, LastTime(st)) }

\* strconv.Atoi with the error dropped: 0 for what is no number
Atoi(s) == IF ParseIntOk(s) THEN ParseInt(s) ELSE 0

\* a treatment of the limit without the ceiling
ClampLimitNoMax(n) == IF n <= 0 THEN DefaultLimit ELSE n

\* the handlers' treatment of the limit
ClampLimit(n) ==
  IF n <= 0 THEN DefaultLimit ELSE IF n > MaxLimit THEN MaxLimit ELSE n

\* the handlers' treatment of the offset
ClampOffset(n) == IF n < 0 THEN 0 ELSE n

\* the limit and the offset the entry point hands to the repository
EffectiveLimit ==
  IF qEntry = "http" THEN ClampLimit(Atoi(qLimit))
  ELSE IF qEntry = "grpc" THEN ClampLimit(qLimit)
  ELSE qLimit

EffectiveOffset ==
  IF qEntry = "http" THEN ClampOffset(Atoi(qOffset))
  ELSE IF qEntry = "grpc" THEN ClampOffset(qOffset)
  ELSE qOffset

\* a stored transaction of the tables queried
QueryRow(sender, recipient, time) ==
  [ID |-> 0, Digest |-> <<sender, recipient, time>>, Sender |-> sender,
   Recipient |-> recipient, Amount |-> <<"7">>, TransactionType |-> "transfer",
   Checkpoint |-> time, Timestamp |-> time, Success |-> TRUE,
   GasFee |-> <<"5">>]

QueryRows ==
  { QueryRow(sender, recipient, time) :
      sender \in {"0xalice", "0xbob"}, recipient \in {"0xbob", "0xvault"},
      time \in 1..2 }

\* the small tables: up to MaxRows stored transactions of distinct digests
QueryStores ==
  UNION { { InsertRows(<< >>, txs) :
              txs \in { s \in [1..n -> QueryRows] :
                          \A i, j \in 1..n : i # j => s[i] # s[j] } } :
          n \in 0..MaxRows }

\* a table with one more transaction of alice than the largest limit
BigStore ==
  InsertRows(<< >>, [k \in 1..(MaxLimit + 1) |-> QueryRow("0xalice", k, k)])

\* the limits and offsets callers give
QueryLimits == {0 - 1, 0, 1, 2, MaxLimit + MaxLimit}

QueryOffsets == {0 - 1, 0, 1}

\* the entry points: the service method itself and the two handlers
QueryEntries == {"core", "http", "grpc"}

\* a query parameter as the entry point receives it: a string of the URL for
\* the HTTP handler, a number otherwise
AsParameter(entry, n) == IF entry = "http" THEN FormatInt(n) ELSE n

\* a table and a call of one entry point
InitQuery ==
  /\ InitSync
  /\ InitNoBatch
  /\ InitNoCancel
  /\ InitNoFanOut
  /\ InitNoClassify
  /\ window = <<0, 0>>
  /\ stats = Nil
  /\ qEntry \in QueryEntries
  /\ qResult = Nil
  /\ dedupIn = << >>
  /\ dedupOut = Nil
  /\ InitNoShape
  /\ InitNoScan
  /\ \/ /\ store \in QueryStores
        /\ qAddress \in {"0xalice", "0xbob"}
        /\ \E n \in QueryLimits : qLimit = AsParameter(qEntry, n)
        /\ \E n \in QueryOffsets : qOffset = AsParameter(qEntry, n)
     \/ /\ store = BigStore
        /\ qAddress = "0xalice"
        /\ qLimit = AsParameter(qEntry, MaxLimit + MaxLimit)
        /\ qOffset = AsParameter(qEntry, 0)
     \/ /\ store = << >>
        /\ qEntry = "http"
        /\ qAddress = "0xalice"
        /\ qLimit \in {<< >>, <<"x">>}
        /\ qOffset = << >>

\* the call: the handler's clamping (if any), the service method, the
\* repository query
CallGetTransactionsByAddress ==
  /\ qResult = Nil
  /\ \/ \E txs \in RepoTransactionsByAddress(store, qAddress, EffectiveLimit,
                                              EffectiveOffset) :
          qResult' = [err |-> NoErr, txs |-> txs]
     \/ qResult' = [err |-> <<"getting transactions by address">>]
  /\ UNCHANGED <<store, syncVars, batchVars, ctxVars, fanVars, classVars,
                 statVars, qEntry, qAddress, qLimit, qOffset, dedupVars,
                 shapeVars, scanVars>>

NextQuery == CallGetTransactionsByAddress

SpecQuery == InitQuery /\ [][NextQuery]_vars

(***************************************************************************)
(* deduplicateTransactions on its own                                      *)
(***************************************************************************)
\* the longest input given
MaxEvents == 3

\* an extracted event; the ledger's strings are taken as they come
DedupEvent(digest, sender, recipient, amount) ==
  [ID |-> "", Digest |-> digest, Sender |-> sender, Recipient |-> recipient,
   Amount |-> amount, TransactionType |-> "transfer", Checkpoint |-> 1,
   Timestamp |-> 1001, Success |-> TRUE, GasFee |-> <<"5">>]

DedupEvents ==
  { DedupEvent(digest, sender, recipient, amount) :
      digest \in { <<"a">>, <<"a", "|", "b">> },
      sender \in {"0xalice", "0xbob"},
      recipient \in {"b", "c"},
      amount \in { <<"1">>, <<"c", "|", "1">> } }

\* the inputs: every sequence of up to MaxEvents events
DedupInputs == UNION { [1..n -> DedupEvents] : n \in 0..MaxEvents }

InitDedup ==
  /\ store = << >>
  /\ InitSync
  /\ InitNoBatch
  /\ InitNoCancel
  /\ InitNoFanOut
  /\ InitNoClassify
  /\ window = <<0, 0>>
  /\ stats = Nil
  /\ qEntry = "none"
  /\ qAddress = ""
  /\ qLimit = 0
  /\ qOffset = 0
  /\ qResult = Nil
  /\ dedupIn \in DedupInputs
  /\ dedupOut = Nil
  /\ InitNoShape
  /\ InitNoScan

\* the call
CallDeduplicate ==
  /\ dedupOut = Nil
  /\ dedupOut' = [txs |-> deduplicateTransactions(dedupIn)]
  /\ UNCHANGED <<store, syncVars, batchVars, ctxVars, fanVars, classVars,
                 statVars, qryVars, dedupIn, shapeVars,
                 scanVars>>

NextDedup == CallDeduplicate

SpecDedup == InitDedup /\ [][NextDedup]_vars

(***************************************************************************)
(* processBatchParallel, goroutine by goroutine: the calls and the mutex   *)
(***************************************************************************)
\* a goroutine that has not started its lookup
NewWorker == [pc |-> "lookup", chirpTxs |-> << >>, seen |-> << >>]

InitMutex ==
  /\ store \in InitStores
  /\ hBatchStore0 = store
  /\ InitSync
  /\ InitAux
  /\ batch \in BatchInputs
  /\ bpc = "wait"
  /\ btasks = [k \in DOMAIN batch |-> NewWorker]
  /\ allChirpTxs = << >>
  /\ bresult = [count |-> 0, err |-> NoErr]
  /\ hSource = << >>
  /\ hBatchFailed = FALSE
  /\ mu = 0

\* what a step of a goroutine leaves alone
WorkerFrame ==
  UNCHANGED <<store, syncVars, auxVars, batch, bpc, bresult, hSource,
              hBatchStore0>>

\* line 194: the goroutine sends GetTransactionByDigest
CallLookup(k) ==
  /\ bpc = "wait"
  /\ k \in DOMAIN btasks
  /\ btasks[k].pc = "lookup"
  /\ btasks' = [btasks EXCEPT ![k].pc = "lookingUp"]
  /\ UNCHANGED <<allChirpTxs, hBatchFailed, mu>>
  /\ WorkerFrame

\* lines 194-202: the answer: an error (logged, the goroutine returns), a row
\* (the goroutine returns) or nil
ReturnLookup(k) ==
  /\ bpc = "wait"
  /\ k \in DOMAIN btasks
  /\ btasks[k].pc = "lookingUp"
  /\ \/ /\ btasks' = [btasks EXCEPT ![k].pc = "failed"]
        /\ hBatchFailed' = TRUE
     \/ /\ GetTransactionByDigest(store, batch[k]) # Nil
        /\ btasks' = [btasks EXCEPT ![k].pc = "done"]
        /\ UNCHANGED hBatchFailed
     \/ /\ GetTransactionByDigest(store, batch[k]) = Nil
        /\ btasks' = [btasks EXCEPT ![k].pc = "extract"]
        /\ UNCHANGED hBatchFailed
  /\ UNCHANGED <<allChirpTxs, mu>>
  /\ WorkerFrame

\* lines 204-223: parse the timestamp and extract; with nothing extracted the
\* goroutine returns
ExtractEvents(k) ==
  /\ bpc = "wait"
  /\ k \in DOMAIN btasks
  /\ btasks[k].pc = "extract"
  /\ LET chirpTxs == BatchProcessed(batch[k]).chirpTxs
     IN  btasks' = [btasks EXCEPT ![k] =
           IF BatchProcessed(batch[k]).parseErr THEN [@ EXCEPT !.pc = "failed"]
           ELSE IF Len(chirpTxs) = 0 THEN [@ EXCEPT !.pc = "done"]
           ELSE [@ EXCEPT !.pc = "lock", !.chirpTxs = chirpTxs]]
  /\ UNCHANGED <<allChirpTxs, hBatchFailed, mu>>
  /\ WorkerFrame

\* A mutex that lets every goroutine in.
LockNoExclusion(k) ==
  /\ bpc = "wait"
  /\ k \in DOMAIN btasks
  /\ btasks[k].pc = "lock"
  /\ mu' = k
  /\ btasks' = [btasks EXCEPT ![k].pc = "read"]
  /\ UNCHANGED <<allChirpTxs, hBatchFailed>>
  /\ WorkerFrame

\* line 225: mu.Lock() returns when no goroutine holds the mutex
Lock(k) ==
  /\ bpc = "wait"
  /\ k \in DOMAIN btasks
  /\ btasks[k].pc = "lock"
  /\ mu = 0
  /\ mu' = k
  /\ btasks' = [btasks EXCEPT ![k].pc = "read"]
  /\ UNCHANGED <<allChirpTxs, hBatchFailed>>
  /\ WorkerFrame

\* line 226, first half: append reads the slice
AppendRead(k) ==
  /\ bpc = "wait"
  /\ k \in DOMAIN btasks
  /\ btasks[k].pc = "read"
  /\ btasks' = [btasks EXCEPT ![k].pc = "write", ![k].seen = allChirpTxs]
  /\ UNCHANGED <<allChirpTxs, hBatchFailed, mu>>
  /\ WorkerFrame

\* line 226, second half: the slice with the goroutine's events at its end is
\* assigned
AppendWrite(k) ==
  /\ bpc = "wait"
  /\ k \in DOMAIN btasks
  /\ btasks[k].pc = "write"
  /\ allChirpTxs' = btasks[k].seen \o btasks[k].chirpTxs
  /\ btasks' = [btasks EXCEPT ![k].pc = "unlock"]
  /\ UNCHANGED <<hBatchFailed, mu>>
  /\ WorkerFrame

\* A goroutine that returns without releasing the mutex.
UnlockForgotten(k) ==
  /\ bpc = "wait"
  /\ k \in DOMAIN btasks
  /\ btasks[k].pc = "unlock"
  /\ btasks' = [btasks EXCEPT ![k].pc = "done"]
  /\ UNCHANGED <<allChirpTxs, hBatchFailed, mu>>
  /\ WorkerFrame

\* line 227: mu.Unlock(), and the goroutine returns
Unlock(k) ==
  /\ bpc = "wait"
  /\ k \in DOMAIN btasks
  /\ btasks[k].pc = "unlock"
  /\ mu' = 0
  /\ btasks' = [btasks EXCEPT ![k].pc = "done"]
  /\ UNCHANGED <<allChirpTxs, hBatchFailed>>
  /\ WorkerFrame

\* the goroutine of block k has returned
WorkerEnded(k) == btasks[k].pc \in {"done", "failed"}

\* lines 231-245: wg.Wait, deduplicate, one bulk write, return
WaitAndSave ==
  /\ bpc = "wait"
  /\ \A k \in DOMAIN btasks : WorkerEnded(k)
  /\ bpc' = "done"
  /\ LET uniqueTxs == deduplicateTransactions(allChirpTxs)
         res == CreateTransactionsBatch(store, uniqueTxs)
     IN  \/ /\ Len(uniqueTxs) > 0
            /\ bresult' = [count |-> 0,
                           err |-> <<"saving transactions batch", "connection">>]
            /\ hBatchFailed' = TRUE
            /\ UNCHANGED store
         \/ /\ res.err
            /\ bresult' = [count |-> 0,
                           err |-> <<"saving transactions batch", "duplicate key">>]
            /\ UNCHANGED <<store, hBatchFailed>>
         \/ /\ ~res.err
            /\ store' = res.store
            /\ bresult' = [count |-> Len(uniqueTxs), err |-> NoErr]
            /\ UNCHANGED hBatchFailed
  /\ UNCHANGED <<syncVars, auxVars, batch, btasks, allChirpTxs, hSource,
                 hBatchStore0, mu>>

NextMutex ==
  \/ \E k \in 1..MaxBatch : CallLookup(k)
  \/ \E k \in 1..MaxBatch : ReturnLookup(k)
  \/ \E k \in 1..MaxBatch : ExtractEvents(k)
  \/ \E k \in 1..MaxBatch : Lock(k)
  \/ \E k \in 1..MaxBatch : AppendRead(k)
  \/ \E k \in 1..MaxBatch : AppendWrite(k)
  \/ \E k \in 1..MaxBatch : Unlock(k)
  \/ WaitAndSave

SpecMutex == InitMutex /\ [][NextMutex]_vars

(***************************************************************************)
(* Extraction: processBatchParallel on a batch of blocks as the ledger can *)
(* return them (records without a body or without effects, balance changes *)
(* of several coins and owners, gas costs of the full u64 range)           *)
(***************************************************************************)
\* the tracked coin in upper case, inside a generic type, and the coin of
\* another package whose module is also called chirp
UpperChirp ==
  <<"0","X","1",":",":","C","H","I","R","P",":",":","C","H","I","R","P">>

WrappedChirp == <<"C","o","i","n","<">> \o chirpToken \o <<">">>

OtherPackageChirp ==
  <<"0","x","9",":",":","c","h","i","r","p",":",":","F","A","K","E">>

ShapeCoins == {chirpToken, UpperChirp, WrappedChirp, SuiCoin, OtherPackageChirp}

\* Owner as <<AddressOwner, ObjectOwner>>: an address, an object, neither
\* (shared or immutable), both
ShapeOwners ==
  { <<"0xbob", "">>, <<"", "0xvault">>, <<"", "">>, <<"0xbob", "0xvault">> }

\* the balance changes of a block: none, one, or one of an address followed
\* by one of an object
ShapeChanges ==
  { << >> }
  \cup { << BalanceChange(o[1], o[2], coin, <<"5">>) >> :
           o \in ShapeOwners, coin \in ShapeCoins }
  \cup { << BalanceChange("0xbob", "", c1, <<"5">>),
            BalanceChange("", "0xvault", c2, <<"7">>) >> :
           c1 \in ShapeCoins, c2 \in ShapeCoins }

MaxInt64Str ==
  <<"9","2","2","3","3","7","2","0","3","6","8","5","4","7","7","5","8","0","7">>

MaxUint64Str ==
  <<"1","8","4","4","6","7","4","4","0","7","3","7","0","9","5","5","1","6","1",
    "5">>

\* Effects.GasUsed: small costs, a rebate above the costs, costs whose sum
\* passes the largest int64, a cost above the largest int64, and a cost that
\* is no number
ShapeGas ==
  { GasUsedOf(<<"4">>, <<"3">>, <<"2">>),
    GasUsedOf(<<"1">>, <<"1">>, <<"5">>),
    GasUsedOf(MaxInt64Str, <<"1">>, <<"0">>),
    GasUsedOf(MaxUint64Str, <<"0">>, <<"0">>),
    GasUsedOf(<< >>, <<"3">>, <<"1">>) }

ShapeKinds == {"full", "noTransaction", "noEffects"}

\* a block of digest d as GetTransactionBlock decodes it
ShapeBlock(d, shape, changes, gas) ==
  [Digest |-> d,
   Transaction |->
     IF shape = "noTransaction" THEN Nil
     ELSE [Data |-> [Sender |-> "0xalice",
                     Transaction |-> [Kind |-> "ProgrammableTransaction",
                                      Transactions |->
                                        << [TransferObjects |-> "coin"] >>]]],
   Effects |->
     IF shape = "noEffects" THEN Nil
     ELSE [Status |-> [Status |-> "success"], GasUsed |-> gas],
   Events |-> << >>,
   BalanceChanges |-> changes,
   TimestampMs |-> [val |-> CheckpointTimestampMs(1)],
   Checkpoint |-> [val |-> FormatInt(1)]]

TrackedChange == << BalanceChange("0xbob", "", chirpToken, <<"5">>) >>

TrackedPair ==
  << BalanceChange("0xbob", "", chirpToken, <<"5">>),
     BalanceChange("", "0xvault", chirpToken, <<"7">>) >>

SmallGas == GasUsedOf(<<"4">>, <<"3">>, <<"2">>)

\* blocks of digest d of every shape, with no, one or two tracked changes
ShapeSiblings(d) ==
  { ShapeBlock(d, shape, changes, SmallGas) :
      shape \in ShapeKinds, changes \in {<< >>, TrackedChange, TrackedPair} }

\* the blocks of digest d: every list of balance changes, every gas record,
\* and the records of unexpected shape
ShapeBlocks(d) ==
  { ShapeBlock(d, "full", changes, SmallGas) : changes \in ShapeChanges }
  \cup { ShapeBlock(d, "full", changes, gas) :
           changes \in {TrackedChange, TrackedPair}, gas \in ShapeGas }
  \cup ShapeSiblings(d)

\* the batches: one block, or two blocks of different digests
ShapeInputs ==
  { <<b>> : b \in ShapeBlocks(<<1, 1>>) }
  \cup { <<b1, b2>> : b1 \in ShapeBlocks(<<1, 1>>),
                      b2 \in ShapeSiblings(<<1, 2>>) }

\* an empty table and a batch handed to processBatchParallel
InitShape ==
  /\ store = << >>
  /\ InitSync
  /\ InitNoBatch
  /\ InitNoCancel
  /\ InitNoFanOut
  /\ InitNoClassify
  /\ window = <<0, 0>>
  /\ stats = Nil
  /\ qEntry = "none"
  /\ qAddress = ""
  /\ qLimit = 0
  /\ qOffset = 0
  /\ qResult = Nil
  /\ dedupIn = << >>
  /\ dedupOut = Nil
  /\ shapeBatch \in ShapeInputs
  /\ shapeTxs = << >>
  /\ shapeResult = Nil
  /\ InitNoScan

\* the orders in which n goroutines can reach the append
CompletionOrders(n) ==
  { f \in [1..n -> 1..n] : \A i, j \in 1..n : f[i] = f[j] => i = j }

\* the events of the goroutines, appended in the given order
Collected(perBlock, order) ==
  LET coll[k \in 0..Len(order)] ==
        IF k = 0 THEN << >> ELSE coll[k - 1] \o perBlock[order[k]]
  IN  coll[Len(order)]

\* processBatchParallel on shapeBatch, every goroutine run to its end: the
\* lookups, the extraction, the merge in completion order, the
\* deduplication and the bulk write (which the database may also refuse)
ProcessShapeBatch ==
  /\ shapeResult = Nil
  /\ LET perBlock ==
           [k \in DOMAIN shapeBatch |->
              IF GetTransactionByDigest(store, shapeBatch[k].Digest) # Nil
                 \/ ProcessedBlock(shapeBatch[k]).parseErr
                THEN << >>
                ELSE ProcessedBlock(shapeBatch[k]).chirpTxs]
     IN  /\ shapeTxs' = perBlock
         /\ \E order \in CompletionOrders(Len(shapeBatch)) :
              LET uniqueTxs ==
                    deduplicateTransactions(Collected(perBlock, order))
                  res == CreateTransactionsBatch(store, uniqueTxs)
              IN  \/ /\ Len(uniqueTxs) > 0
                     /\ shapeResult' =
                          [count |-> 0,
                           err |-> <<"saving transactions batch",
                                     "connection">>]
                     /\ UNCHANGED store
                  \/ /\ res.err
                     /\ shapeResult' =
                          [count |-> 0,
                           err |-> <<"saving transactions batch",
                                     "duplicate key">>]
                     /\ UNCHANGED store
                  \/ /\ ~res.err
                     /\ store' = res.store
                     /\ shapeResult' = [count |-> Len(uniqueTxs),
                                        err |-> NoErr]
  /\ UNCHANGED <<syncVars, batchVars, ctxVars, fanVars, classVars, statVars,
                 qryVars, dedupVars, shapeBatch, scanVars>>

NextShape == ProcessShapeBatch

SpecShape == InitShape /\ [][NextShape]_vars

(***************************************************************************)
(* Termination: one call of SyncTransactions, or one call of               *)
(* syncTransactionsByAddress with its batches, scheduled fairly            *)
(***************************************************************************)
\* Pages the ledger holds for the scanned address.
MaxPages == 2

\* the caller whose call is followed to its end
LiveCaller == "http"

\* the page a query with the given cursor asks for
PageOf(c) == IF c = Nil THEN 1 ELSE c.val

\* TransactionQueryResponse: the blocks of the page, HasNextPage, NextCursor
QueryResponses(c) ==
  { [Data |-> data, HasNextPage |-> more, NextCursor |-> nxt] :
      data \in BatchInputs,
      more \in IF PageOf(c) < MaxPages THEN BOOLEAN ELSE {FALSE},
      nxt \in {Nil, [val |-> PageOf(c) + 1]} }

\* syncTransactionsByAddress is called on some table; its first query has no
\* cursor
InitScan ==
  /\ store \in InitStores
  /\ InitSync
  /\ InitNoBatch
  /\ InitNoCancel
  /\ InitNoFanOut
  /\ InitNoClassify
  /\ window = <<0, 0>>
  /\ stats = Nil
  /\ qEntry = "none"
  /\ qAddress = ""
  /\ qLimit = 0
  /\ qOffset = 0
  /\ qResult = Nil
  /\ dedupIn = << >>
  /\ dedupOut = Nil
  /\ InitNoShape
  /\ scanPc = "query"
  /\ cursor = Nil
  /\ response = Nil
  /\ totalCount = 0
  /\ scanErr = NoErr

\* either call is about to be made
InitLive == Init \/ InitScan

\* lines 137-150 and 153-161: the ledger answers the query with an error
\* (the scan returns) or with a page; the page, if it has blocks, goes to
\* processBatchParallel as one batch
ScanQuery ==
  /\ scanPc = "query"
  /\ \/ /\ scanPc' = "done"
        /\ scanErr' = <<"querying transactions">>
        /\ UNCHANGED <<response, batchVars>>
     \/ \E resp \in QueryResponses(cursor) :
          /\ response' = resp
          /\ scanErr' = NoErr
          /\ IF resp.Data = << >>
               THEN scanPc' = "check" /\ UNCHANGED batchVars
               ELSE /\ scanPc' = "batch"
                    /\ batch' = resp.Data
                    /\ bpc' = "wait"
                    /\ btasks' = [k \in DOMAIN resp.Data |-> NewWorker]
                    /\ allChirpTxs' = << >>
                    /\ bresult' = [count |-> 0, err |-> NoErr]
                    /\ mu' = 0
                    /\ UNCHANGED <<hSource, hBatchFailed, hBatchStore0>>
  /\ UNCHANGED <<store, syncVars, ctxVars, fanVars, classVars, statVars,
                 qryVars, dedupVars, shapeVars, cursor, totalCount>>

\* lines 162-167: processBatchParallel has returned; its count is added
\* unless it failed
ScanBatchReturned ==
  /\ scanPc = "batch"
  /\ bpc = "done"
  /\ scanPc' = "check"
  /\ bpc' = "off"
  /\ totalCount' = IF bresult.err = NoErr THEN totalCount + bresult.count
                   ELSE totalCount
  /\ UNCHANGED <<store, syncVars, ctxVars, fanVars, classVars, statVars,
                 qryVars, dedupVars, shapeVars, cursor, response, scanErr,
                 batch, btasks, allChirpTxs, bresult, hSource, hBatchFailed,
                 hBatchStore0, mu>>

\* A page check that goes on whenever the ledger names a next cursor.
ScanNextPageIgnoresFlag ==
  /\ scanPc = "check"
  /\ IF response.NextCursor = Nil
       THEN scanPc' = "done" /\ UNCHANGED cursor
       ELSE scanPc' = "query" /\ cursor' = response.NextCursor
  /\ UNCHANGED <<store, syncVars, ctxVars, fanVars, classVars, statVars,
                 qryVars, dedupVars, shapeVars, response, totalCount, scanErr,
                 batchVars>>

\* lines 170-176: the loop ends when the ledger reported no next page or no
\* cursor, else the next query uses the cursor
ScanNextPage ==
  /\ scanPc = "check"
  /\ IF ~response.HasNextPage \/ response.NextCursor = Nil
       THEN scanPc' = "done" /\ UNCHANGED cursor
       ELSE scanPc' = "query" /\ cursor' = response.NextCursor
  /\ UNCHANGED <<store, syncVars, ctxVars, fanVars, classVars, statVars,
                 qryVars, dedupVars, shapeVars, response, totalCount, scanErr,
                 batchVars>>

\* a step of the address scan or of a goroutine of its batch
ScanStep ==
  \/ ScanQuery
  \/ \E k \in 1..MaxBatch : CallLookup(k)
  \/ \E k \in 1..MaxBatch : ReturnLookup(k)
  \/ \E k \in 1..MaxBatch : ExtractEvents(k)
  \/ \E k \in 1..MaxBatch : Lock(k)
  \/ \E k \in 1..MaxBatch : AppendRead(k)
  \/ \E k \in 1..MaxBatch : AppendWrite(k)
  \/ \E k \in 1..MaxBatch : Unlock(k)
  \/ WaitAndSave
  \/ ScanBatchReturned
  \/ ScanNextPage

\* a step of the running SyncTransactions call or of one of its goroutines
PassStep(p) ==
  \/ ReadLatest(p)
  \/ FetchCheckpoint(p)
  \/ \E k \in 1..2 : TaskLookup(p, k)
  \/ \E k \in 1..2 : TaskFetch(p, k)
  \/ \E k \in 1..2 : TaskSave(p, k)
  \/ NextCheckpoint(p)

NextLive ==
  \/ scanPc = "none" /\ LedgerAdvance
  \/ scanPc = "none" /\ StartSync(LiveCaller)
  \/ scanPc = "none" /\ PassStep(LiveCaller)
  \/ scanPc = "none" /\ Return(LiveCaller)
  \/ ScanStep

\* Every call the code makes returns, and the Go scheduler runs every
\* goroutine that can run: a call under way takes its next step.
SpecLive ==
  /\ InitLive
  /\ [][NextLive]_vars
  /\ WF_vars(PassStep(LiveCaller))
  /\ WF_vars(ScanStep)

(***************************************************************************)
(* Properties                                                              *)
(***************************************************************************)
\* the rows of a table without their primary keys
RowSet(st) == {[st[r] EXCEPT !.ID = 0] : r \in DOMAIN st}

\* the rows of the table that carry the key of event tx
RowsWithKey(st, tx) == {r \in DOMAIN st : DedupKey(st[r]) = DedupKey(tx)}

\* the checkpoints a call walks: from its first checkpoint to the latest
\* checkpoint it read
RangeOf(p) ==
  {c \in 0..MaxCp : /\ c >= StartCheckpoint(lastCheckpoint[p])
                    /\ c <= latestCheckpoint[p]}

\* C1: in every reachable state of the table, also while two
\* SyncTransactions calls that read the same watermark interleave, no two
\* rows have the same (digest, recipient, amount, kind).
C1_Uniqueness ==
  \A i, j \in DOMAIN store :
    i # j => DedupKey(store[i]) # DedupKey(store[j])

\* C1 witness: a goroutine tried to insert an event whose key a row already
\* carries (the other call stored it after both looked the digest up).
C1_Witness ==
  \E p \in Passes : \E k \in DOMAIN tasks[p] :
    /\ tasks[p][k].pc = "done"
    /\ tasks[p][k].collided
    /\ Len(store) > 0

C3_WatermarkMonotonic ==
  [][GetLatestCheckpoint(store') >= GetLatestCheckpoint(store)]_vars

\* C3 witness: a call has ended with an error after rows were stored.
C3_Witness ==
  \E p \in Passes :
    pc[p] = "done" /\ err[p] # NoErr /\ GetLatestCheckpoint(store) > 0

\* C4: at most one SyncTransactions call is between reading the watermark
\* and its return at any time.
C4_SingleFlight ==
  Cardinality({p \in Passes :
                 pc[p] \in {"readLatest", "getCheckpoint", "wait"}}) <= 1

\* C5: when two calls that began on the same table (so read the same
\* watermark) and read the same latest checkpoint have both ended, and no ledger or database call of either
\* failed on transport, the table holds exactly the rows one call alone
\* would have left: none is missing and none is there twice.
C5_SameAsSinglePass ==
  ( /\ pc["timer"] = "done" /\ pc["http"] = "done"
    /\ ~hFailed["timer"] /\ ~hFailed["http"]
    /\ hStore0["timer"] = hStore0["http"]
    /\ lastCheckpoint["timer"] = lastCheckpoint["http"]
    /\ latestCheckpoint["timer"] = latestCheckpoint["http"] )
  => LET single == SinglePass(hStore0["timer"], lastCheckpoint["timer"],
                              latestCheckpoint["timer"])
     IN  /\ RowSet(store) = RowSet(single)
         /\ Len(store) = Len(single)

\* C5 witness: two such calls have ended and each of them stored events of
\* the range.
C5_Witness ==
  /\ pc["timer"] = "done" /\ pc["http"] = "done"
  /\ ~hFailed["timer"] /\ ~hFailed["http"]
  /\ hStore0["timer"] = hStore0["http"]
  /\ lastCheckpoint["timer"] = lastCheckpoint["http"]
  /\ latestCheckpoint["timer"] = latestCheckpoint["http"]
  /\ chirpTxCount["timer"] > 0 /\ chirpTxCount["http"] > 0

\* C6: a bulk write whose batch holds an event that collides with a stored
\* row returns success.
C6_ConflictIsSuccess ==
  \A p \in Passes : \A k \in DOMAIN tasks[p] :
    (tasks[p][k].pc = "done" /\ tasks[p][k].collided)
      => tasks[p][k].err = NoErr

\* C7: when a call has ended without a ledger or database call of it
\* failing on transport, every transaction of its range with two or more
\* balance changes of the tracked coin has one row per balance change.
C7_RowPerBalanceChange ==
  \A p \in Passes :
    (pc[p] = "done" /\ ~hFailed[p]) =>
      \A c \in RangeOf(p) : \A k \in DOMAIN CheckpointTxs(c) :
        Len(Processed(c, k).chirpTxs) >= 2 =>
          Cardinality({r \in DOMAIN store :
                         store[r].Digest = CheckpointTxs(c)[k]})
            = Len(Processed(c, k).chirpTxs)

\* C8: when processBatchParallel has returned (no database call failing on
\* transport) and two goroutines appended events with the same key, exactly
\* one row of the table has that key.
C8_OneRowPerKey ==
  (bpc = "done" /\ ~hBatchFailed) =>
    \A i, j \in DOMAIN allChirpTxs :
      ( /\ hSource[i] # hSource[j]
        /\ DedupKey(allChirpTxs[i]) = DedupKey(allChirpTxs[j]) )
      => Cardinality(RowsWithKey(store, allChirpTxs[i])) = 1

\* every event of every transaction of checkpoint c is stored
FullyProcessed(c) ==
  \A k \in DOMAIN CheckpointTxs(c) :
    \A i \in DOMAIN Processed(c, k).chirpTxs :
      RowsWithKey(store, Processed(c, k).chirpTxs[i]) # {}

\* C9: when a call has ended, with an error or not, every checkpoint up to
\* the maximum checkpoint of the table is fully processed.
C9_WatermarkFullyProcessed ==
  \A p \in Passes :
    pc[p] = "done" =>
      \A c \in 0..GetLatestCheckpoint(store) : FullyProcessed(c)

\* C10: when fetching checkpoint c failed in a call and c is below the
\* latest checkpoint the call read, the call went on: it has ended only
\* after the last checkpoint of its range.
C10_ContinuesAfterFailedCheckpoint ==
  \A p \in Passes :
    ( /\ pc[p] = "done"
      /\ Len(err[p]) = 2
      /\ err[p][2] < latestCheckpoint[p] )
    => checkpoint[p] > latestCheckpoint[p]

\* C11: when a call has ended after some ledger call of it succeeded (a
\* checkpoint of the range was fetched) and another failed, it has not
\* returned a failure.
C11_NoOutrightFailure ==
  \A p \in Passes :
    (pc[p] = "done" /\ totalTxCount[p] > 0 /\ hFailed[p]) => err[p] = NoErr

\* the call of p has fetched no checkpoint, started no goroutine and stored
\* no event, and has ended
ZeroWork(p) ==
  /\ pc[p] = "done"
  /\ totalTxCount[p] = 0
  /\ chirpTxCount[p] = 0
  /\ tasks[p] = << >>

\* C12 as stated: a call whose watermark is at or above the ledger's latest
\* checkpoint (0 and 0 on an empty table included) does no work.
C12_Original ==
  \A p \in Passes :
    ( /\ pc[p] \notin {"idle", "readLatest"}
      /\ lastCheckpoint[p] >= latestCheckpoint[p] )
    => ZeroWork(p)

\* C12 amended: a call whose watermark is above 0 and at or above the
\* ledger's latest checkpoint does no work.
C12_NoWorkWhenUpToDate ==
  \A p \in Passes :
    ( /\ pc[p] \notin {"idle", "readLatest"}
      /\ lastCheckpoint[p] > 0
      /\ lastCheckpoint[p] >= latestCheckpoint[p] )
    => ZeroWork(p)

\* C12 witness: a call that read watermark W > 0 and latest checkpoint W has
\* returned nil.
C12_Witness ==
  \E p \in Passes :
    /\ pc[p] = "done"
    /\ err[p] = NoErr
    /\ lastCheckpoint[p] > 0
    /\ latestCheckpoint[p] = lastCheckpoint[p]

\* C13: at every moment of a fan-out the number of extraction tasks running
\* concurrently is at most the configured worker ceiling sync.max_workers,
\* however many locators the batch holds.
C13_WorkerCeiling == Running <= MaxWorkers

\* the elements of a sequence
Elems(s) == {s[i] : i \in DOMAIN s}

\* the events of the goroutines that appended to allChirpTxs
MergedEvents ==
  UNION {Elems(BatchProcessed(batch[k]).chirpTxs) : k \in Elems(hSource)}

\* C14: processBatchParallel writes nothing to the store before every task
\* of the batch has completed or failed; it then makes at most one bulk
\* write, whose rows are the deduplicated merge of all tasks' events; and it
\* does not return before all tasks have finished.
C14_BarrierThenOneBulkWrite ==
  [][ /\ store' # store =>
           /\ \A k \in DOMAIN btasks : BatchTaskEnded(k)
           /\ bpc = "wait" /\ bpc' = "done"
           /\ store' = InsertRows(store, deduplicateTransactions(allChirpTxs))
           /\ RowSet(SubSeq(store', Len(store) + 1, Len(store'))) = MergedEvents
           /\ Cardinality(MergedEvents) = Len(store') - Len(store)
      /\ bpc = "done" => store' = store
      /\ bpc' = "done" => \A k \in DOMAIN btasks : BatchTaskEnded(k)
    ]_vars

C14_Witness ==
  /\ bpc = "done"
  /\ bresult.err = NoErr
  /\ bresult.count > 0
  /\ Len(allChirpTxs) > bresult.count
  /\ Cardinality(Elems(hSource)) = 2
  /\ store # hBatchStore0

\* C15: for a fixed input batch and a fixed store, the set of events that the
\* concurrent batch processor persists is the same for every degree of
\* parallelism and every interleaving of the tasks: it is the set a run with
\* one worker, block after block, persists.
C15_SameAsSequential ==
  (bpc = "done" /\ ~hBatchFailed) =>
    RowSet(store) = RowSet(SequentialBatch(hBatchStore0, batch))

C15_Witness ==
  /\ bpc = "done"
  /\ ~hBatchFailed
  /\ Cardinality(Elems(hSource)) = 2
  /\ hSource[1] = 2
  /\ Len(store) = Len(hBatchStore0) + 2

\* C16: if one extraction task of a batch fails (store lookup error, ledger
\* fetch error, timestamp parse error), every sibling task of the batch still
\* runs to completion, and the events of the siblings that succeeded are
\* persisted (the database being reachable for the bulk write).
C16_SiblingsPersisted ==
  ( /\ bpc = "done"
    /\ \E k \in DOMAIN btasks : btasks[k] = "failed"
    /\ bresult.err # <<"saving transactions batch", "connection">> ) =>
      /\ \A k \in DOMAIN btasks : BatchTaskEnded(k)
      /\ \A k \in Elems(hSource) :
           Elems(BatchProcessed(batch[k]).chirpTxs) \subseteq RowSet(store)

\* a step that sends a request to the ledger
IssuesLedgerCall ==
  \/ /\ pc'[Request] \in {"inGetLatestCheckpoint", "inGetCheckpoint"}
     /\ pc[Request] # pc'[Request]
  \/ \E k \in DOMAIN tasks[Request] \cap DOMAIN tasks'[Request] :
       /\ tasks'[Request][k].pc = "inGetTransactionBlock"
       /\ tasks[Request][k].pc # "inGetTransactionBlock"

\* once the context is cancelled no request is sent to the ledger any more
\* (so none is sent after the next iteration boundary either)
NoNewLedgerCall == [][cancelled => ~IssuesLedgerCall]_vars

\* a step in which the cancellation aborts a call in flight
AbortsCall == ~hAborted /\ hAborted'

CallsConfiguredClaim ==
  \E k \in DOMAIN txIn.Transaction.Data.Transaction.Transactions :
    LET tx == txIn.Transaction.Data.Transaction.Transactions[k]
    IN  /\ "MoveCall" \in DOMAIN tx
        /\ <<tx.MoveCall.package, tx.MoveCall.module, tx.MoveCall.function>>
             = claimAddr

\* the kinds of the events extracted
KindsOut == {txOut[i].TransactionType : i \in DOMAIN txOut}

\* C18: every event extracted from a transaction whose body contains a move
\* call to the configured claim function has kind claim, for every amount
\* sign and whatever events the transaction emitted.
C18_ConfiguredClaimIsClaim ==
  (txOut # << >> /\ CallsConfiguredClaim) => KindsOut = {"claim"}

\* some emitted event's type contains the marker m
SomeEventContains(m) ==
  \E k \in DOMAIN txIn.Events : Contains(txIn.Events[k].Type, m)

\* the block holds no claim call, neither by the configured target nor by the
\* function name the code looks for
NoClaimCall == ~CallsConfiguredClaim /\ ~HasClaimCall(txIn)

\* C19: for a transaction without a claim move call, if an emitted event's
\* type string contains the "unstake" marker its events are classified
\* unstake; if it contains a staking-proof or "stake" marker (and no unstake
\* marker) they are classified stake.
C19_UnstakeAndStake ==
  (txOut # << >> /\ NoClaimCall) =>
    /\ SomeEventContains(UnstakeMarker) => KindsOut = {"unstake"}
    /\ ( /\ ~SomeEventContains(UnstakeMarker)
         /\ \/ SomeEventContains(StakeProofMarker)
            \/ SomeEventContains(StakeMarker) ) => KindsOut = {"stake"}

\* no emitted event carries a stake, staking-proof or unstake marker
NoStakeMarker ==
  /\ ~SomeEventContains(StakeProofMarker)
  /\ ~SomeEventContains(StakeMarker)
  /\ ~SomeEventContains(UnstakeMarker)

\* the tracked balance changes of the block, in the order of the record
TrackedChanges ==
  SelectSeq(txIn.BalanceChanges, LAMBDA bc : isChirp(bc.CoinType))

StatsReturned == stats # Nil /\ stats.err = NoErr

\* the successful rows of kind type whose time t has start <= t < end
SuccessfulOfKind(type) ==
  {r \in DOMAIN store : /\ store[r].Timestamp >= window[1]
                        /\ store[r].Timestamp < window[2]
                        /\ store[r].Success
                        /\ store[r].TransactionType = type}

\* the successful rows whose time t has start <= t < end
SuccessfulInWindow ==
  UNION {SuccessfulOfKind(type) : type \in TransactionTypes}

Abs(n) == IF n < 0 THEN 0 - n ELSE n

\* no stored row lies on the end of the period
NoRowAtEnd == \A r \in DOMAIN store : store[r].Timestamp # window[2]

\* C21: for every window, aggregate reports for each kind the total of the
\* amounts of the successful events of that kind, the sell total as a positive
\* magnitude (one claim of "100" and one sell of "-40" give claim=100,
\* sell=40), and totalTxCount is the number of successful events in the
\* window.  (Stated for tables with no row on the end of the period, where
\* the two readings of the window agree.)
C21_AggregateTotals ==
  (StatsReturned /\ NoRowAtEnd) =>
    /\ stats.TotalClaimed = FormatInt(SumAmounts(store, SuccessfulOfKind("claim")))
    /\ stats.TotalTransferred =
         FormatInt(SumAmounts(store, SuccessfulOfKind("transfer")))
    /\ stats.TotalStaked = FormatInt(SumAmounts(store, SuccessfulOfKind("stake")))
    /\ stats.TotalBought = FormatInt(SumAmounts(store, SuccessfulOfKind("buy")))
    /\ stats.TotalSold =
         FormatInt(Abs(SumAmounts(store, SuccessfulOfKind("sell"))))
    /\ stats.TotalTxCount = Cardinality(SuccessfulInWindow)

\* the rows whose time t has start <= t <= end
InClosedWindow ==
  {r \in DOMAIN store : /\ store[r].Timestamp >= window[1]
                        /\ store[r].Timestamp <= window[2]}

\* the rows whose time t has start <= t < end
InHalfOpenWindow ==
  {r \in DOMAIN store : /\ store[r].Timestamp >= window[1]
                        /\ store[r].Timestamp < window[2]}

\* the per-kind totals, the total count and the distinct-sender count are
\* those of the rows R: every total is the signed sum the code reports
StatsAreOver(R) ==
  /\ \A type \in {"claim", "transfer", "stake", "buy", "sell"} :
       LET rows == {r \in R : store[r].Success
                              /\ store[r].TransactionType = type}
           total == IF type = "claim" THEN stats.TotalClaimed
                    ELSE IF type = "transfer" THEN stats.TotalTransferred
                    ELSE IF type = "stake" THEN stats.TotalStaked
                    ELSE IF type = "buy" THEN stats.TotalBought
                    ELSE stats.TotalSold
       IN  total = FormatInt(SumAmounts(store, rows))
  /\ stats.TotalTxCount = Cardinality({r \in R : store[r].Success})
  /\ stats.UniqueHolders = Cardinality({store[r].Sender : r \in R})

\* C22, as claimed: the aggregate window is half-open: an event with
\* timestamp t counts toward per-kind totals, total count and distinct-sender
\* count iff start <= t < end; an event at end exactly is excluded.
C22_Original == StatsReturned => StatsAreOver(InHalfOpenWindow)

\* C22, amended: the aggregate window is closed: an event with timestamp t
\* counts toward per-kind totals, total count and distinct-sender count iff
\* start <= t <= end; an event at end exactly is included in all three.
C22_ClosedWindow == StatsReturned => StatsAreOver(InClosedWindow)

C22_Witness ==
  /\ StatsReturned
  /\ \E r \in DOMAIN store : store[r].Timestamp = window[2] /\ store[r].Success
  /\ \E r \in DOMAIN store : store[r].Timestamp > window[2]
  /\ stats.TotalTxCount = 1

\* the per-kind totals of a TokenStatistics
TotalsOf(s) ==
  <<s.TotalClaimed, s.TotalTransferred, s.TotalStaked, s.TotalBought,
    s.TotalSold>>

\* the table without its row r
WithoutRow(st, r) == SubSeq(st, 1, r - 1) \o SubSeq(st, r + 1, Len(st))

\* the statistics of the same period over the table without row r
StatsWithout(r) == GetStatistics(WithoutRow(store, r), window[1], window[2])

\* C23: in aggregate, a failed event (success=false) inside the window
\* contributes its sender to the distinct-sender count but nothing to any
\* per-kind total nor to the total event count; a successful event
\* contributes to all three.
C23_FailedCountsSenderOnly ==
  StatsReturned =>
    \A r \in InClosedWindow :
      /\ stats.UniqueHolders =
           Cardinality({store[q].Sender : q \in InClosedWindow \ {r}}
                         \cup {store[r].Sender})
      /\ stats.UniqueHolders >= 1
      /\ ~store[r].Success =>
           /\ TotalsOf(stats) = TotalsOf(StatsWithout(r))
           /\ stats.TotalTxCount = StatsWithout(r).TotalTxCount
      /\ store[r].Success =>
           /\ TotalsOf(stats) # TotalsOf(StatsWithout(r))
           /\ stats.TotalTxCount = StatsWithout(r).TotalTxCount + 1

C23_Witness ==
  /\ StatsReturned
  /\ Len(store) = 2
  /\ \A r \in DOMAIN store : r \in InClosedWindow
  /\ ~store[1].Success
  /\ store[2].Success
  /\ store[1].Sender # store[2].Sender
  /\ stats.UniqueHolders = 2
  /\ stats.TotalTxCount = 1

\* the limit the caller asked for
RequestedLimit == IF qEntry = "http" THEN Atoi(qLimit) ELSE qLimit

\* the call has returned rows
QueryReturned == qResult # Nil /\ qResult.err = NoErr

\* C24 as stated: through every entry point, the service method itself
\* included, a call with a limit above the maximum returns at most the
\* maximum number of rows.
C24_Original ==
  (QueryReturned /\ RequestedLimit > MaxLimit)
    => Len(qResult.txs) <= MaxLimit

\* C24 (amended): through the HTTP and the gRPC entry point a call with a
\* limit above the maximum returns at most the maximum number of rows, for
\* every table and every offset; the service method called directly hands the
\* limit on as it is and returns at most as many rows as were asked for.
C24_HandlersClamp ==
  (QueryReturned /\ RequestedLimit > MaxLimit)
    => /\ qEntry \in {"http", "grpc"} => Len(qResult.txs) <= MaxLimit
       /\ qEntry = "core" => Len(qResult.txs) <= qLimit

\* a handler was asked for twice the maximum over a table with more matching
\* rows than the maximum and returned the maximum number of rows
C24_Witness ==
  /\ QueryReturned
  /\ qEntry \in {"http", "grpc"}
  /\ RequestedLimit = MaxLimit + MaxLimit
  /\ Cardinality(MatchingRows(store, qAddress)) > MaxLimit
  /\ Len(qResult.txs) = MaxLimit

\* the locators (checkpoint, position) of the checkpoints from..to
LocatorsOfRange(from, to) ==
  {loc \in (from..to) \X (1..2) : loc[2] \in DOMAIN CheckpointTxs(loc[1])}

\* the pass has gone through its whole range and returns nil
PassCompleted(p) == pc[p] = "done" /\ err[p] = NoErr

\* the range of a pass that has read both watermarks
FirstOfPass(p) == StartCheckpoint(lastCheckpoint[p])

RanAlone(p) == pc[p] # "idle" /\ hMode[p] # "none"

\* the rows the step adds to the table
RowsInserted == Len(store') - Len(store)

\* the goroutine of locator k of pass p ends in this step
TaskReturns(p, k) ==
  /\ k \in DOMAIN tasks[p]
  /\ k \in DOMAIN tasks'[p]
  /\ tasks[p][k].pc # "done"
  /\ tasks'[p][k].pc = "done"

\* C26: the count processTransaction returns for its bulk write is the number
\* of rows the write inserted, the newly-stored count of the pass grows by
\* exactly that count, and no row is inserted without being counted; so for a
\* pass that ran alone the count is the growth of the table over the pass.
C26_CountIsRowsInserted ==
  /\ [][ /\ \A p \in Passes, k \in 1..2 :
             TaskReturns(p, k)
               => /\ tasks'[p][k].count = RowsInserted
                  /\ chirpTxCount'[p] = chirpTxCount[p] + RowsInserted
        /\ RowsInserted # 0
             => \E p \in Passes, k \in 1..2 : TaskReturns(p, k) ]_vars
  /\ [](\A p \in Passes :
         RanAlone(p) => chirpTxCount[p] = Len(store) - Len(hStore0[p]))

\* a pass that ran alone has completed with rows of two bulk writes counted
C26_Witness ==
  \E p \in Passes :
    /\ RanAlone(p)
    /\ PassCompleted(p)
    /\ chirpTxCount[p] >= 2
    /\ chirpTxCount[p] = Len(store) - Len(hStore0[p])

\* the checkpoints from, from + 1, ..., to in ascending order
Ascending(from, to) ==
  IF from > to THEN << >> ELSE [i \in 1..(to - from + 1) |-> from + i - 1]

\* C27 as stated: a pass with W < latest and no failed call fetches exactly
\* the checkpoints W+1, ..., latest, each once and in ascending order (with
\* W = 0 the first checkpoint fetched is 1).
C27_Original ==
  \A p \in Passes :
    (PassCompleted(p) /\ ~hFailed[p] /\ lastCheckpoint[p] < latestCheckpoint[p])
      => hFetched[p] = Ascending(lastCheckpoint[p] + 1, latestCheckpoint[p])

\* C27 (amended): a pass with W < latest and no failed call fetches exactly
\* the checkpoints W+1, ..., latest when W > 0 and exactly 0, 1, ..., latest
\* when W = 0, each once and in ascending order; and at every moment of every
\* pass the checkpoints fetched so far are the first ones of that range.
C27_FetchesTheRangeInOrder ==
  \A p \in Passes :
    /\ (PassCompleted(p) /\ ~hFailed[p]
          /\ lastCheckpoint[p] < latestCheckpoint[p])
         => hFetched[p] = Ascending(FirstOfPass(p), latestCheckpoint[p])
    /\ hFetched[p] =
         Ascending(FirstOfPass(p), FirstOfPass(p) + Len(hFetched[p]) - 1)
    /\ hFetched[p] # << >>
         => hFetched[p][Len(hFetched[p])] <= latestCheckpoint[p]

\* a pass has read a watermark below the ledger's latest checkpoint and has
\* fetched its range of at least two checkpoints without a failed call
C27_Witness ==
  \E p \in Passes :
    /\ PassCompleted(p)
    /\ ~hFailed[p]
    /\ lastCheckpoint[p] < latestCheckpoint[p]
    /\ Len(hFetched[p]) >= 2
    /\ hFetched[p] = Ascending(FirstOfPass(p), latestCheckpoint[p])

\* the rows the step appends to the table
NewRows == {r \in DOMAIN store' : r > Len(store)}

\* the rows written since the call of p began
WrittenSince(p) == {r \in DOMAIN store : r > Len(hStore0[p])}

\* C28: a pass leaves a checkpoint only when every goroutine of it has
\* ended, fetches a checkpoint only when no goroutine of an earlier one is
\* left, and every row a goroutine of the pass writes is of the checkpoint
\* being processed; so at every moment of a pass that ran alone the rows
\* written by it have a checkpoint no greater than the one being processed.
C28_CheckpointBarrier ==
  /\ [][ \A p \in Passes :
           /\ (pc[p] = "wait" /\ pc'[p] # "wait") => AllTasksDone(p)
           /\ Len(hFetched'[p]) > Len(hFetched[p]) => tasks[p] = << >>
           /\ \A k \in 1..2 :
                TaskReturns(p, k)
                  => \A r \in NewRows : store'[r].Checkpoint = checkpoint[p]
         ]_vars
  /\ [](\A p \in Passes :
         RanAlone(p)
           => \A r \in WrittenSince(p) : store[r].Checkpoint <= checkpoint[p])

\* a pass that ran alone is waiting for the goroutines of its second or later
\* checkpoint; it has written a row of that checkpoint and a row of an
\* earlier one
C28_Witness ==
  \E p \in Passes :
    /\ RanAlone(p)
    /\ pc[p] = "wait"
    /\ Len(hFetched[p]) >= 2
    /\ \E r \in WrittenSince(p) : store[r].Checkpoint = checkpoint[p]
    /\ \E r \in WrittenSince(p) : store[r].Checkpoint < checkpoint[p]

\* the goroutine of locator k of pass p is about to look its digest up, and
\* the digest is stored
LooksUpKnown(p, k) ==
  /\ k \in DOMAIN tasks[p]
  /\ tasks[p][k].pc = "lookup"
  /\ GetTransactionByDigest(store, tasks[p][k].digest) # Nil

\* C29: a goroutine that looks up a digest that is stored ends at once with
\* count 0: it never comes to the ledger fetch, the extraction or the bulk
\* write, and its step leaves the table as it was.
C29_KnownLocatorSkipped ==
  [][ \A p \in Passes, k \in 1..2 :
        (LooksUpKnown(p, k) /\ tasks'[p] # tasks[p] /\ pc'[p] = "wait"
           /\ tasks'[p][k] # tasks[p][k])
          => /\ tasks'[p][k].pc = "done"
             /\ tasks'[p][k].count = 0
             /\ store' = store ]_vars

\* a goroutine whose transaction holds events of the token has ended with
\* nil and count 0: it found the digest stored
C29_Witness ==
  \E p \in Passes, k \in 1..2 :
    /\ pc[p] = "wait"
    /\ k \in DOMAIN tasks[p]
    /\ tasks[p][k].pc = "done"
    /\ tasks[p][k].err = NoErr
    /\ tasks[p][k].count = 0
    /\ ~Processed(checkpoint[p], k).parseErr
    /\ Len(TaskChirpTxs(p, k)) > 0
    /\ GetTransactionByDigest(store, tasks[p][k].digest) # Nil

\* the first occurrence of every (digest, recipient, amount, kind) of the
\* input, in input order
FirstOfEachTuple(txs) ==
  LET firsts[k \in 0..Len(txs)] ==
        IF k = 0 THEN << >>
        ELSE IF \E j \in 1..(k - 1) : DedupKey(txs[j]) = DedupKey(txs[k])
          THEN firsts[k - 1]
        ELSE Append(firsts[k - 1], txs[k])
  IN  firsts[Len(txs)]

\* C30: deduplicateTransactions returns the first occurrence of every
\* (digest, recipient, amount, kind) of its input, in input order, so exactly
\* one event per tuple and never one event for two different tuples; and
\* applied to what it returned it returns the same.
C30_FirstOccurrencePerTuple ==
  dedupOut # Nil
    => /\ dedupOut.txs = FirstOfEachTuple(dedupIn)
       /\ \A i \in DOMAIN dedupIn :
            Cardinality({j \in DOMAIN dedupOut.txs :
                           DedupKey(dedupOut.txs[j]) = DedupKey(dedupIn[i])}) = 1
       /\ deduplicateTransactions(dedupOut.txs) = dedupOut.txs

\* the goroutines inside the append
InsideAppend == {k \in DOMAIN btasks : btasks[k].pc \in {"read", "write", "unlock"}}

\* how often the event occurs in the sequence
Occurrences(txs, tx) == Cardinality({i \in DOMAIN txs : txs[i] = tx})

\* how often the event occurs among the events the goroutines extracted
Extracted(tx) ==
  LET sum[k \in 0..Len(btasks)] ==
        IF k = 0 THEN 0
        ELSE sum[k - 1] + Occurrences(btasks[k].chirpTxs, tx)
  IN  sum[Len(btasks)]

\* C31: at most one goroutine is inside the append at any time, and it is the
\* one holding the mutex; no goroutine holds the mutex while its store call is
\* in progress, nor is it held during the bulk write after the barrier; and
\* once every goroutine has returned the buffer holds exactly the events the
\* goroutines extracted, each as often as it was extracted.
C31_AppendUnderMutex ==
  bpc # "off"
    => /\ Cardinality(InsideAppend) <= 1
       /\ \A k \in InsideAppend : mu = k
       /\ \A k \in DOMAIN btasks :
            btasks[k].pc \in {"lookup", "lookingUp", "extract"} => mu # k
       /\ (\A k \in DOMAIN btasks : WorkerEnded(k))
            => /\ mu = 0
               /\ \A k \in DOMAIN btasks :
                    \A i \in DOMAIN btasks[k].chirpTxs :
                      Occurrences(allChirpTxs, btasks[k].chirpTxs[i])
                        = Extracted(btasks[k].chirpTxs[i])
               /\ \A i \in DOMAIN allChirpTxs :
                    Extracted(allChirpTxs[i]) > 0

\* two goroutines with events: one is inside the append while the other
\* waits for the mutex
C31_Witness ==
  /\ bpc = "wait"
  /\ \E j, k \in DOMAIN btasks :
       /\ btasks[j].pc = "write"
       /\ mu = j
       /\ btasks[k].pc = "lock"

\* a record of unexpected shape
Malformed(tx) == tx.Transaction = Nil \/ tx.Effects = Nil

\* processBatchParallel has returned for the batch
ShapeReturned == shapeResult # Nil

\* the bulk write failed because the database could not be reached
ShapeConnectionLost ==
  /\ shapeResult.err # NoErr
  /\ shapeResult.err[2] = "connection"

\* the event is a row of the table
Persisted(tx) ==
  \E r \in DOMAIN store :
    /\ store[r].Digest = tx.Digest
    /\ store[r].Recipient = tx.Recipient
    /\ store[r].Amount = tx.Amount
    /\ store[r].TransactionType = tx.TransactionType

\* some block of the batch has an unexpected shape
HasMalformed == \E k \in DOMAIN shapeBatch : Malformed(shapeBatch[k])

\* C32: when a batch holds a record without a transaction body or without
\* effects, that record yields no event, the call returns no error (the
\* database being reachable), and every event of the other records of the
\* batch is a row of the table afterwards.
C32_MalformedSkipped ==
  (ShapeReturned /\ HasMalformed)
    => /\ \A k \in DOMAIN shapeBatch :
            Malformed(shapeBatch[k]) => shapeTxs[k] = << >>
       /\ ~ShapeConnectionLost
            => /\ shapeResult.err = NoErr
               /\ \A k \in DOMAIN shapeTxs : \A i \in DOMAIN shapeTxs[k] :
                    Persisted(shapeTxs[k][i])

\* the coin type contains the configured identifier, letter case ignored
MatchesConfigured(coinType) == Contains(ToLower(coinType), ToLower(chirpToken))

MatchingChange(balanceChange) == MatchesConfigured(balanceChange.CoinType)

\* the events are those of the given balance changes, one each, in order
EventsOfChanges(txs, changes) ==
  /\ Len(txs) = Len(changes)
  /\ \A i \in DOMAIN txs :
       /\ txs[i].Amount = changes[i].Amount
       /\ txs[i].Recipient = extractOwnerAddress(changes[i].Owner)

\* C33: the events extracted from a block of full shape are exactly one per
\* balance change whose coin type contains the configured asset identifier
\* (case-insensitively), in the order of the record; a balance change whose
\* coin type does not contain the identifier gives no event.
C33_OneEventPerMatchingChange ==
  ShapeReturned
    => \A k \in DOMAIN shapeBatch :
         ~Malformed(shapeBatch[k])
           => EventsOfChanges(shapeTxs[k],
                SelectSeq(shapeBatch[k].BalanceChanges, MatchingChange))

\* the balance change is one the extractor takes for the tracked coin
TakenChange(balanceChange) == isChirp(balanceChange.CoinType)

\* the recipient the owner of a balance change stands for
RecipientOf(owner) ==
  CASE owner.AddressOwner # "" -> owner.AddressOwner
    [] owner.AddressOwner = "" /\ owner.ObjectOwner # "" -> owner.ObjectOwner
    [] OTHER -> ""

\* C34: every balance change the extractor takes gives an event, whatever its
\* owner, and the event's recipient is the address owner when that is not
\* empty, else the object owner when that is not empty, else the empty string.
C34_RecipientFromOwner ==
  ShapeReturned
    => \A k \in DOMAIN shapeBatch :
         ~Malformed(shapeBatch[k])
           => LET taken == SelectSeq(shapeBatch[k].BalanceChanges, TakenChange)
              IN  /\ Len(shapeTxs[k]) = Len(taken)
                  /\ \A i \in DOMAIN taken :
                       shapeTxs[k][i].Recipient = RecipientOf(taken[i].Owner)

\* a returned batch with an event of an address owner, one of an object owner
\* and one of a change with neither
C34_Witness ==
  /\ ShapeReturned
  /\ \E k \in DOMAIN shapeBatch : \E i \in DOMAIN shapeTxs[k] :
       /\ shapeTxs[k][i].Recipient = ""
       /\ shapeBatch[k].BalanceChanges[i].Owner
            = [AddressOwner |-> "", ObjectOwner |-> ""]
  /\ \E k \in DOMAIN shapeBatch : \E i \in DOMAIN shapeTxs[k] :
       /\ shapeTxs[k][i].Recipient = "0xbob"
       /\ shapeBatch[k].BalanceChanges[i].Owner.AddressOwner = "0xbob"
  /\ \E k \in DOMAIN shapeBatch : \E i \in DOMAIN shapeTxs[k] :
       /\ shapeTxs[k][i].Recipient = "0xvault"
       /\ shapeBatch[k].BalanceChanges[i].Owner
            = [AddressOwner |-> "", ObjectOwner |-> "0xvault"]

\* a cost the ledger reports as a decimal string
IsDecimal(s) == Len(s) > 0 /\ \A k \in DOMAIN s : IsDigit(s[k])

\* wide enough for the sum of three costs of twenty digits
WideLimbs == Int64Limbs + 2

\* computation + storage - rebate as the integers compute it
ExactGasFee(gasUsed) ==
  LimbsFormat(
    LimbsSub(LimbsAdd(LimbsOfDigits(gasUsed.ComputationCost, WideLimbs).val,
                      LimbsOfDigits(gasUsed.StorageCost, WideLimbs).val),
             LimbsOfDigits(gasUsed.StorageRebate, WideLimbs).val))

\* C35: the events of one transaction carry one gasFee, and when the three
\* costs are decimal strings it is the decimal string of
\* computation + storage - rebate.
C35_GasFeeExact ==
  ShapeReturned
    => \A k \in DOMAIN shapeBatch :
         shapeTxs[k] # << >>
           => LET gasUsed == shapeBatch[k].Effects.GasUsed
              IN  /\ \A i, j \in DOMAIN shapeTxs[k] :
                       shapeTxs[k][i].GasFee = shapeTxs[k][j].GasFee
                  /\ (/\ IsDecimal(gasUsed.ComputationCost)
                      /\ IsDecimal(gasUsed.StorageCost)
                      /\ IsDecimal(gasUsed.StorageRebate))
                       => shapeTxs[k][1].GasFee = ExactGasFee(gasUsed)

\* the rows of the table the call did not return
NotReturned ==
  {r \in MatchingRows(store, qAddress) :
     \A i \in DOMAIN qResult.txs : qResult.txs[i].Digest # store[r].Digest}

\* the smaller of two numbers
Min(a, b) == IF a < b THEN a ELSE b

\* the call handed the repository a page size and a number of rows to skip
PageAsked == EffectiveLimit > 0 /\ EffectiveOffset >= 0

\* the rows returned are the page: as many as the limit and the matching rows
\* past the offset allow, newest first, with exactly offset matching rows
\* before them in the order and all other matching rows behind them
IsPage ==
  LET txs == qResult.txs
      matching == Cardinality(MatchingRows(store, qAddress))
      first == txs[1].Timestamp
      last == txs[Len(txs)].Timestamp
      ahead == {r \in NotReturned : store[r].Timestamp > last}
      mayBeAhead == {r \in NotReturned : store[r].Timestamp >= first}
  IN  /\ Len(txs) = IF matching <= EffectiveOffset THEN 0
                    ELSE Min(EffectiveLimit, matching - EffectiveOffset)
      /\ \A i, j \in DOMAIN txs : i < j => txs[i].Timestamp >= txs[j].Timestamp
      /\ txs # << >>
           => /\ ahead \subseteq mayBeAhead
              /\ Cardinality(ahead) <= EffectiveOffset
              /\ EffectiveOffset <= Cardinality(mayBeAhead)

\* C36: the events returned by GetByAddress(address, limit, offset) are
\* stored events whose sender or recipient is address, each at most once (no
\* event of another address ever appears); and for a page size limit > 0 and
\* offset >= 0 they are the stored events of that address ordered by timestamp
\* descending, without the first offset of them, cut after limit.
C36_PageOfAddress ==
  QueryReturned
    => /\ \A i \in DOMAIN qResult.txs :
            /\ qAddress \in {qResult.txs[i].Sender, qResult.txs[i].Recipient}
            /\ \E r \in MatchingRows(store, qAddress) :
                 qResult.txs[i] = toDomainTransaction(store[r])
       /\ \A i, j \in DOMAIN qResult.txs :
            i # j => qResult.txs[i] # qResult.txs[j]
       /\ PageAsked => IsPage

\* a call with limit 1 and offset 1 over a table with a newer and an older
\* event of the address and returned the older one; a call over a table that
\* also holds an event of another address
C36_Witness ==
  /\ QueryReturned
  /\ EffectiveLimit = 1
  /\ EffectiveOffset = 1
  /\ Cardinality(MatchingRows(store, qAddress)) = 2
  /\ Len(qResult.txs) = 1
  /\ \E r \in NotReturned : store[r].Timestamp > qResult.txs[1].Timestamp

\* every row of the table is still there, unchanged and in its place; rows
\* may have been added behind them
StoreExtended ==
  /\ Len(store') >= Len(store)
  /\ SubSeq(store', 1, Len(store)) = store

\* the step is the bulk write of a goroutine of a pass
IsSaveStep ==
  \E p \in Passes : \E k \in DOMAIN tasks[p] :
    /\ tasks[p][k].pc = "save"
    /\ tasks'[p][k].pc = "done"

\* C37: a step of a Sync pass never deletes a stored row or changes a field
\* of one, it can only add rows behind the stored ones; and only the bulk
\* write changes the table at all: the reads of a pass (the stored watermark,
\* the lookup of a digest) leave it as it is.
C37_AppendOnly ==
  [][StoreExtended /\ (store' # store => IsSaveStep)]_vars

\* a pass that began on a table with rows has added a row to it
C37_Witness ==
  \E p \in Passes :
    /\ hStore0[p] # << >>
    /\ pc[p] # "idle"
    /\ Len(store) > Len(hStore0[p])

\* the states of a SyncTransactions call that has not returned
CallUnderWay == {"readLatest", "getCheckpoint", "wait"}

\* the ledger's last page said that no page follows
LastPageReported == ~response.HasNextPage \/ response.NextCursor = Nil

\* C38: under fair scheduling, with every ledger and store call returning, a
\* running SyncTransactions call returns and its per-checkpoint barrier is
\* passed; a running address scan returns, the barrier of its batch is
\* released, and a goroutine waiting for the merge lock gets it; and the
\* scan's loop ends at the page check exactly when the ledger reported no
\* next page or no cursor.
C38_EverySyncReturns ==
  /\ (pc[LiveCaller] \in CallUnderWay) ~> (pc[LiveCaller] = "done")
  /\ (pc[LiveCaller] = "wait") ~> (pc[LiveCaller] # "wait")
  /\ (scanPc \in {"query", "batch", "check"}) ~> (scanPc = "done")
  /\ (bpc = "wait") ~> (bpc = "done")
  /\ \A k \in 1..MaxBatch :
       (k \in DOMAIN btasks /\ btasks[k].pc = "lock")
         ~> (k \in DOMAIN btasks /\ btasks[k].pc = "read")
  /\ [][scanPc = "check" /\ scanPc' # "check"
          => (scanPc' = "done" <=> LastPageReported)]_vars

\* the scan is on its second page and a goroutine of the batch waits for the
\* merge lock while another holds it
C38_Witness ==
  /\ scanPc = "batch"
  /\ cursor # Nil
  /\ \E j, k \in DOMAIN btasks :
       /\ btasks[j].pc = "lock"
       /\ mu = k
       /\ k # j

\* the periods the totals are asked for: the periods of the statistics, one
\* around every stored event and the instant of the classified block
AggregateWindows ==
  StatWindows \cup {<<0, 2000>>, <<ParseInt(CheckpointTimestampMs(1)),
                                  ParseInt(CheckpointTimestampMs(1))>>}

====
